---- MODULE Spec2Model ----
(***************************************************************************)
(* Model of the telemetry core of the ZenML MCP server:                    *)
(*   src/server/zenml_mcp_analytics.py  (queue, sender worker, shutdown,   *)
(*                                       session state, anonymous id)      *)
(*   src/server/zenml_server.py         (tool-call wrapper, classifier)    *)
(*                                                                         *)
(* Spec       foreground threads, sender workers, queue, shutdown          *)
(* SpecProps  session properties (set_session_properties /                 *)
(*            set_client_info_once)                                        *)
(* SpecUid    get_or_create_user_id called from several threads            *)
(* SpecTool   handle_tool_exceptions.wrapper around one tool call          *)
(* SpecClassify  _classify_exception applied to one exception              *)
(* SpecNorm   _normalize_datetime_filter applied to one filter value       *)
(* SpecLive   Spec with a scheduler that lets a live sender thread run      *)
(* SpecStats  track_tool_call on several threads under the module's locks  *)
(* SpecSignal SpecStats with SIGTERM / SIGINT and the signal handler       *)
(***************************************************************************)
EXTENDS Integers, Sequences, FiniteSets, TLC

\* ------------------------------------------------------------------------
\* Bounds of the model
\* ------------------------------------------------------------------------
\* Capacity of _event_queue.  The source sets 100 (zenml_mcp_analytics.py:57);
\* the model scales it down so that "queue full" is reached.
ANALYTICS_QUEUE_MAXSIZE == 2
\* events (and therefore batches) built in one behaviour; also the cap on the
\* number of track_tool_call invocations
MaxEvents == 2
\* invocations of _on_shutdown (atexit hook, signal handler, direct calls)
MaxShutdownCalls == 2

\* foreground threads (tool invocations, main thread)
Threads == {"t1", "t2"}
\* the thread that runs main(): the only explicit caller of init_analytics
\* (zenml_server.py:2932); every thread may initialise lazily through
\* _ensure_initialized
MainThread == "t1"
\* Thread objects: every new worker is started by a _send_events call, so
\* there are never more workers than events
Workers == 1..MaxEvents
\* the tool names passed to track_tool_call
ToolNames == {"list_runs"}

NoWorker == 0     \* _sender_thread is None
NoClient == 0     \* _http_client is None
ShutdownEvent == 0  \* the "MCP Server Shutdown" track event; other events are 1..MaxEvents

\* queue items: a batch (list of events) or the None sentinel
Batch(evs) == [kind |-> "batch", events |-> evs]
Sentinel == [kind |-> "None", events |-> <<>>]

VARIABLES
  \* ---- module configuration (read from the environment at import) ----
  enabledEnv, disableEnv,   \* _enabled_env, _disable_env
  ANALYTICS_ENABLED, DEV_MODE,
  \* ---- module state of zenml_mcp_analytics.py ----
  initAttempted, initFailed, sessionId, sessionStart, shutdownRegistered,
  toolCallCount, toolsUsed,
  eventQueue, senderThread, senderStopEvent, senderStartLock,
  shutdownOnce, httpClient,
  traitsHashFile,
  \* ---- threads: foreground (pc, loc) and sender workers (wpc, ...) ----
  pc, loc, wpc, wbatch, wclient,
  \* ---- HTTP client objects and requests in flight ----
  inflight, nextClient, closedClients,
  \* ---- history of what happened ----
  nextEv, dropped, raised, shutdownBuilt, syncSends,
  workerTaken, queueAtShutdown, drainTimedOut, shutdownCalls, firstShutdownSession,
  startedWorkers,
  \* ---- SpecProps: session properties and client identity ----
  sessionProperties,      \* _session_properties: key -> value, Absent when the key is not in the dict
  mcpClientInfoCaptured,  \* _mcp_client_info_captured of zenml_server.py
  propsOp,                \* the last call made and its arguments
  firstStored,            \* per key, the first value any call stored
  \* ---- SpecUid: the anonymous user id ----
  userId,                 \* _user_id ("" for None)
  idFile,                 \* contents of <config dir>/anonymous_id
  envId,                  \* ZENML_MCP_ANALYTICS_ID
  fsWritable,             \* whether mkdir / write_text succeed
  inDocker, storeUrl,     \* is_running_in_docker(), ZENML_STORE_URL
  upc,                    \* position of each thread inside get_or_create_user_id
  returnedIds,            \* every value a call has returned
  uidRaised,              \* the exceptions that have left a call
  nextUuid, uidCalls, envChanges,
  \* ---- SpecTool: the tool wrapper ----
  tpc,                    \* position inside the wrapper
  tcall,                  \* the tool invoked and what its body will do
  tlocal,                 \* the wrapper's locals success, error_type, http_status_code
  tresult,                \* the value the wrapper returns
  tescaped,               \* the exception that left the wrapper, if any
  trecorded,              \* the track_tool_call records of this invocation
  \* ---- SpecClassify: _classify_exception applied to one exception ----
  cinput,                 \* tool name, exception and http_status_code passed
  cresult,                \* what the call returned, or the exception that left it
  \* ---- SpecNorm: _normalize_datetime_filter applied to one value ----
  nvalue,                 \* the filter value
  nresult,                \* what the call returned, or the exception that left it
  nagain,                 \* the same for the call on the returned value
  \* ---- SpecStats / SpecSignal: the module's locks and the signal handler ----
  fpc,                    \* position of each frame (a thread, or the signal handler)
  fname,                  \* tool_name of the track_tool_call a frame is running
  ftmp,                   \* the value of _tool_call_count a frame has loaded
  lockHolder,             \* per Lock: the frame holding it, or "free"
  startedCalls,           \* track_tool_call invocations begun
  completedCalls,         \* ... that ran to their end
  namesPassed,            \* the tool names those were passed
  statsSnapshot,          \* total_tool_calls / unique_tools_used read by _on_shutdown
  signalsDelivered,       \* SIGTERM / SIGINT deliveries so far
  processExited           \* the interpreter has left (sys.exit, or atexit finished)

configVars == <<enabledEnv, disableEnv, ANALYTICS_ENABLED, DEV_MODE>>
sessionVars == <<initAttempted, initFailed, sessionId, sessionStart, shutdownRegistered,
                 toolCallCount, toolsUsed, traitsHashFile>>
queueVars == <<eventQueue, senderThread, senderStopEvent, senderStartLock>>
workerVars == <<wpc, wbatch, wclient>>
httpVars == <<httpClient, inflight, nextClient, closedClients>>
histVars == <<nextEv, dropped, raised, shutdownBuilt, syncSends, workerTaken,
              queueAtShutdown, drainTimedOut, shutdownCalls, firstShutdownSession,
              startedWorkers>>
coreVars == <<configVars, sessionVars, queueVars, workerVars, httpVars, histVars,
              shutdownOnce, pc, loc>>
propsVars == <<sessionProperties, mcpClientInfoCaptured, propsOp, firstStored>>
uidVars == <<userId, idFile, envId, fsWritable, inDocker, storeUrl, upc, returnedIds,
             uidRaised, nextUuid, uidCalls, envChanges>>
toolVars == <<tpc, tcall, tlocal, tresult, tescaped, trecorded>>
syncVars == <<fpc, fname, ftmp, lockHolder, startedCalls, completedCalls, namesPassed,
              statsSnapshot, signalsDelivered, processExited>>
classifyVars == <<cinput, cresult>>
normVars == <<nvalue, nresult, nagain>>
vars == <<coreVars, propsVars, uidVars, toolVars, classifyVars, normVars, syncVars>>

\* a step of the analytics core leaves the variables of the other
\* specifications alone
CoreStep == UNCHANGED <<propsVars, uidVars, toolVars, classifyVars, normVars, syncVars>>


\* ------------------------------------------------------------------------
\* Helpers
\* ------------------------------------------------------------------------
SeqToSet(q) == {q[i] : i \in 1..Len(q)}

\* events of all batches sitting in a queue, in queue order
RECURSIVE QueueEvents(_)
QueueEvents(q) ==
  IF q = <<>> THEN <<>> ELSE Head(q).events \o QueueEvents(Tail(q))

\* Thread.is_alive(): true from start() until the target function has returned
IsAlive(w) == w # NoWorker /\ wpc[w] \in {"loop", "get", "send", "post", "close"}

\* Queue.put_nowait: appends unless the queue already holds maxsize items,
\* in which case queue.Full is raised and the queue is left as it was.
PutNowaitNoLimit(q, item) == [queue |-> Append(q, item), full |-> FALSE]
PutNowait(q, item) ==
  IF Len(q) >= ANALYTICS_QUEUE_MAXSIZE
    THEN [queue |-> q, full |-> TRUE]
    ELSE [queue |-> Append(q, item), full |-> FALSE]

\* `_sender_thread is not None and _sender_thread.is_alive()` evaluated while
\* holding _sender_start_lock (line 283)
NoRecheck == FALSE
AliveUnderLock == IsAlive(senderThread)

\* `_shutdown_once.is_set()` read under _shutdown_lock (line 668)
OnceIgnored == FALSE
ShutdownAlreadyRun == shutdownOnce

\* Queue.get (line 264) and Queue.get_nowait (line 716): the item returned is
\* removed from the queue
GetLeavesItem(q) == q
AfterGet(q) == Tail(q)

\* `_sender_stop_event.is_set()` tested by the worker's loop (line 262)
StopIgnored == FALSE
StopRequested == senderStopEvent

\* drained.append(shutdown_event) (line 724)
ShutdownEventFirst(drained, ev) == <<ev>> \o drained
FinalBatch(drained, ev) == Append(drained, ev)

\* the value of the local `sender_stopped` tested by the finally block of
\* _on_shutdown (line 732); "unbound" when no assignment was executed
InitLoc == [batch |-> <<>>, cont |-> <<>>, stopped |-> "unbound",
            thread |-> NoWorker, drained |-> <<>>]

\* return from the current function to its caller (or to the idle thread)
Return(t, l) ==
  IF l.cont = <<>>
    THEN /\ pc' = [pc EXCEPT ![t] = "idle"]
         /\ loc' = [loc EXCEPT ![t] = InitLoc]
    ELSE /\ pc' = [pc EXCEPT ![t] = Head(l.cont)]
         /\ loc' = [loc EXCEPT ![t] = [l EXCEPT !.cont = Tail(l.cont)]]

Goto(t, label) == pc' = [pc EXCEPT ![t] = label]

\* ------------------------------------------------------------------------
\* Configuration (lines 30-41)
\* ------------------------------------------------------------------------
\* values of ZENML_MCP_ANALYTICS_ENABLED (default "true") and of
\* ZENML_MCP_DISABLE_ANALYTICS (default "") in the environment
EnabledEnvRaw == {"true", "False"}
DisableEnvRaw == {"", "YES"}
\* str.lower() on these values
EnvLower(v) ==
  CASE v = "False" -> "false"
    [] v = "YES" -> "yes"
    [] OTHER -> v
TruthyEnv == {"true", "1", "yes"}
\* _disabled_reason is None: ZENML_MCP_DISABLE_ANALYTICS is not set to a
\* truthy value and ZENML_MCP_ANALYTICS_ENABLED is
AnalyticsEnabled(enabled_env, disable_env) ==
  ~(disable_env \in TruthyEnv) /\ enabled_env \in TruthyEnv

\* ------------------------------------------------------------------------
\* Init: the module right after import
\* ------------------------------------------------------------------------
CoreInit ==
  /\ enabledEnv \in {EnvLower(v) : v \in EnabledEnvRaw}
  /\ disableEnv \in {EnvLower(v) : v \in DisableEnvRaw}
  /\ ANALYTICS_ENABLED = AnalyticsEnabled(enabledEnv, disableEnv)
  /\ DEV_MODE \in BOOLEAN
  /\ initAttempted = FALSE /\ initFailed = FALSE
  /\ sessionId = 0 /\ sessionStart = FALSE /\ shutdownRegistered = FALSE
  /\ toolCallCount = 0 /\ toolsUsed = {}
  /\ eventQueue = <<>> /\ senderThread = NoWorker
  /\ senderStopEvent = FALSE /\ senderStartLock = "free"
  /\ shutdownOnce = FALSE /\ httpClient = NoClient
  /\ traitsHashFile \in {"missing", "current", "stale", "corrupt"}
  /\ pc = [t \in Threads |-> "idle"]
  /\ loc = [t \in Threads |-> InitLoc]
  /\ wpc = [w \in Workers |-> "unborn"]
  /\ wbatch = [w \in Workers |-> <<>>]
  /\ wclient = [w \in Workers |-> NoClient]
  /\ inflight = [t \in Threads |-> NoClient]
  /\ nextClient = 1 /\ closedClients = {}
  /\ nextEv = 1 /\ dropped = {} /\ raised = {}
  /\ shutdownBuilt = 0 /\ syncSends = <<>> /\ workerTaken = {}
  /\ queueAtShutdown = <<>> /\ drainTimedOut = FALSE
  /\ shutdownCalls = 0 /\ firstShutdownSession = "none"
  /\ startedWorkers = 0


\* ------------------------------------------------------------------------
\* init_analytics / _do_init_analytics / _should_identify
\* ------------------------------------------------------------------------
\* _should_identify on the traits_hash file of the config directory:
\*   "current"  holds the hash of the current traits
\*   "stale"    holds another hash;  "missing"  no file
\*   "ioerror"  the directory cannot be read or written (OSError)
\*   "corrupt"  the file cannot be decoded: read_text raises a ValueError
\*              subclass, which `except (OSError, PermissionError)` lets through
ShouldIdentify(file) ==
  CASE file = "current" -> [identify |-> FALSE, file |-> "current", error |-> FALSE]
    [] file \in {"missing", "stale"} ->
                           [identify |-> TRUE, file |-> "current", error |-> FALSE]
    [] file = "ioerror" -> [identify |-> TRUE, file |-> "ioerror", error |-> FALSE]
    [] OTHER            -> [identify |-> FALSE, file |-> file, error |-> TRUE]

\* init_analytics line 463: `if _init_attempted: return` (a call that returns
\* here changes nothing and is left out)
CallInitAnalytics(t) ==
  /\ t = MainThread
  /\ pc[t] = "idle"
  /\ ~initAttempted
  /\ Goto(t, "init")
  /\ UNCHANGED <<configVars, sessionVars, queueVars, workerVars, httpVars, histVars,
                 shutdownOnce, loc>>
  /\ CoreStep

\* lines 466-481 and _do_init_analytics (435-451)
DoInit(t) ==
  /\ pc[t] = "init"
  /\ initAttempted' = TRUE
  /\ IF ~ANALYTICS_ENABLED
       THEN /\ Return(t, loc[t])
            /\ UNCHANGED <<initFailed, sessionId, sessionStart, shutdownRegistered,
                           traitsHashFile, nextEv>>
       ELSE /\ sessionId' = sessionId + 1
            /\ sessionStart' = TRUE
            /\ shutdownRegistered' = TRUE
            /\ IF DEV_MODE
                 THEN /\ Return(t, loc[t])
                      /\ UNCHANGED <<initFailed, traitsHashFile, nextEv>>
                 ELSE LET r == ShouldIdentify(traitsHashFile) IN
                      /\ traitsHashFile' = r.file
                      /\ initFailed' = r.error
                      /\ IF r.identify
                           THEN \* _send_events([_build_identify_event(...)])
                                /\ nextEv <= MaxEvents
                                /\ nextEv' = nextEv + 1
                                /\ loc' = [loc EXCEPT ![t].batch = <<nextEv>>]
                                /\ Goto(t, "send_events")
                           ELSE /\ Return(t, loc[t])
                                /\ UNCHANGED nextEv
  /\ UNCHANGED <<configVars, toolCallCount, toolsUsed, queueVars, workerVars, httpVars,
                 dropped, raised, shutdownBuilt, syncSends, workerTaken,
                 queueAtShutdown, drainTimedOut, shutdownCalls, firstShutdownSession,
                 startedWorkers, shutdownOnce>>
  /\ CoreStep

\* ------------------------------------------------------------------------
\* track_tool_call / track_event / _ensure_initialized
\* ------------------------------------------------------------------------
\* _ensure_initialized lines 489-493: disabled, or the initialization failed
RefusesOnInitFailureOnly == initFailed
EnsureInitializedRefuses == ~ANALYTICS_ENABLED \/ initFailed

\* track_event line 576: `if DEV_MODE:` print the event and return
DevFlagIgnored == FALSE
LogOnly == DEV_MODE

\* track_event lines 553-579 with _ensure_initialized (489-498) inlined:
\* disabled or failed -> return; not yet attempted -> init_analytics first;
\* dev mode -> print only; otherwise build the event and _send_events it.
EnterTrackEvent(t) ==
  IF EnsureInitializedRefuses
    THEN Return(t, loc[t]) /\ UNCHANGED nextEv
    ELSE IF ~initAttempted
      THEN /\ Goto(t, "init")
           /\ loc' = [loc EXCEPT ![t].cont = <<"track_build">> \o @]
           /\ UNCHANGED nextEv
      ELSE IF LogOnly
        THEN Return(t, loc[t]) /\ UNCHANGED nextEv
        ELSE /\ nextEv <= MaxEvents
             /\ nextEv' = nextEv + 1
             /\ loc' = [loc EXCEPT ![t].batch = <<nextEv>>]
             /\ Goto(t, "send_events")

\* lines 609-611: the counter and the set are updated under _tool_stats_lock;
\* line 629 then calls track_event
CallTrackToolCall(t, tool) ==
  /\ pc[t] = "idle"
  /\ toolCallCount < MaxEvents
  /\ toolCallCount' = toolCallCount + 1
  /\ toolsUsed' = toolsUsed \cup {tool}
  /\ EnterTrackEvent(t)
  /\ UNCHANGED <<configVars, initAttempted, initFailed, sessionId, sessionStart,
                 shutdownRegistered, traitsHashFile, queueVars, workerVars, httpVars,
                 dropped, raised, shutdownBuilt, syncSends, workerTaken,
                 queueAtShutdown, drainTimedOut, shutdownCalls, firstShutdownSession,
                 startedWorkers, shutdownOnce>>
  /\ CoreStep

\* back in track_event after the lazy init_analytics: line 498
\* (return not _init_failed), then lines 557-579
TrackBuild(t) ==
  /\ pc[t] = "track_build"
  /\ IF initFailed \/ LogOnly
       THEN /\ Return(t, loc[t])
            /\ UNCHANGED nextEv
       ELSE /\ nextEv <= MaxEvents
            /\ nextEv' = nextEv + 1
            /\ loc' = [loc EXCEPT ![t].batch = <<nextEv>>]
            /\ Goto(t, "send_events")
  /\ UNCHANGED <<configVars, sessionVars, queueVars, workerVars, httpVars,
                 dropped, raised, shutdownBuilt, syncSends, workerTaken,
                 queueAtShutdown, drainTimedOut, shutdownCalls, firstShutdownSession,
                 startedWorkers, shutdownOnce>>
  /\ CoreStep

\* ------------------------------------------------------------------------
\* _send_events / _ensure_sender_thread_started
\* ------------------------------------------------------------------------
\* line 279: the unlocked fast path
EnsureFastPath(t) ==
  /\ pc[t] = "send_events"
  /\ IF IsAlive(senderThread) THEN Goto(t, "put") ELSE Goto(t, "start_lock")
  /\ UNCHANGED <<configVars, sessionVars, queueVars, workerVars, httpVars, histVars,
                 shutdownOnce, loc>>
  /\ CoreStep

\* line 282: with _sender_start_lock
EnsureAcquire(t) ==
  /\ pc[t] = "start_lock"
  /\ senderStartLock = "free"
  /\ \E w \in Workers : wpc[w] = "unborn"
  /\ senderStartLock' = t
  /\ Goto(t, "start_thread")
  /\ UNCHANGED <<configVars, sessionVars, eventQueue, senderThread, senderStopEvent,
                 workerVars, httpVars, histVars, shutdownOnce, loc>>
  /\ CoreStep

\* lines 283-292, holding the lock: re-check, clear the stop event, create
\* and start the worker thread
EnsureStart(t) ==
  /\ pc[t] = "start_thread"
  /\ senderStartLock = t
  /\ senderStartLock' = "free"
  /\ IF AliveUnderLock
       THEN UNCHANGED <<senderThread, senderStopEvent, wpc, startedWorkers>>
       ELSE \E w \in Workers :
            /\ wpc[w] = "unborn"
            /\ \A v \in Workers : wpc[v] = "unborn" => w <= v
            /\ senderStopEvent' = FALSE
            /\ senderThread' = w
            /\ wpc' = [wpc EXCEPT ![w] = "loop"]
            /\ startedWorkers' = startedWorkers + 1
  /\ Goto(t, "put")
  /\ UNCHANGED <<configVars, sessionVars, eventQueue, wbatch, wclient, httpVars,
                 nextEv, dropped, raised, shutdownBuilt, syncSends, workerTaken,
                 queueAtShutdown, drainTimedOut, shutdownCalls, firstShutdownSession,
                 shutdownOnce, loc>>
  /\ CoreStep

\* line 330: _event_queue.put_nowait(list(events)); queue.Full is swallowed
Enqueue(t) ==
  /\ pc[t] = "put"
  /\ LET r == PutNowait(eventQueue, Batch(loc[t].batch)) IN
       /\ eventQueue' = r.queue
       /\ dropped' = IF r.full THEN dropped \cup SeqToSet(loc[t].batch) ELSE dropped
  /\ Return(t, [loc[t] EXCEPT !.batch = <<>>])
  /\ UNCHANGED <<configVars, sessionVars, senderThread, senderStopEvent, senderStartLock,
                 workerVars, httpVars, nextEv, raised, shutdownBuilt, syncSends,
                 workerTaken, queueAtShutdown, drainTimedOut, shutdownCalls,
                 firstShutdownSession, startedWorkers, shutdownOnce>>
  /\ CoreStep

\* ------------------------------------------------------------------------
\* _sender_worker / _send_events_sync / _close_http_client
\* ------------------------------------------------------------------------
\* _send_events_sync lines 246-247: the client is created on first use
ClientForPost == IF httpClient = NoClient THEN nextClient ELSE httpClient

\* _close_http_client: close the current client, then forget it
CloseHttpClient ==
  /\ closedClients' = IF httpClient = NoClient THEN closedClients
                      ELSE closedClients \cup {httpClient}
  /\ httpClient' = NoClient

\* line 262: while not _sender_stop_event.is_set()
WorkerLoop(w) ==
  /\ wpc[w] = "loop"
  /\ wpc' = [wpc EXCEPT ![w] = IF StopRequested THEN "close" ELSE "get"]
  /\ UNCHANGED <<configVars, sessionVars, queueVars, wbatch, wclient, httpVars, histVars,
                 shutdownOnce, pc, loc>>
  /\ CoreStep

\* lines 263-271: get(timeout=0.5); Empty -> continue; None -> break;
\* a batch -> _send_events_sync(batch), here up to the start of its POST
WorkerGet(w) ==
  /\ wpc[w] = "get"
  /\ IF eventQueue = <<>>
       THEN /\ wpc' = [wpc EXCEPT ![w] = "loop"]
            /\ UNCHANGED <<eventQueue, wbatch, wclient, workerTaken, httpClient, nextClient>>
       ELSE /\ eventQueue' = AfterGet(eventQueue)
            /\ IF Head(eventQueue) = Sentinel
                 THEN /\ wpc' = [wpc EXCEPT ![w] = "close"]
                      /\ UNCHANGED <<wbatch, wclient, workerTaken, httpClient, nextClient>>
                 ELSE /\ wpc' = [wpc EXCEPT ![w] = "post"]
                      /\ wbatch' = [wbatch EXCEPT ![w] = Head(eventQueue).events]
                      /\ workerTaken' = workerTaken \cup SeqToSet(Head(eventQueue).events)
                      /\ wclient' = [wclient EXCEPT ![w] = ClientForPost]
                      /\ httpClient' = ClientForPost
                      /\ nextClient' = IF httpClient = NoClient THEN nextClient + 1
                                       ELSE nextClient
  /\ UNCHANGED <<configVars, sessionVars, senderThread, senderStopEvent, senderStartLock,
                 inflight, closedClients, nextEv, dropped, raised, shutdownBuilt,
                 syncSends, queueAtShutdown, drainTimedOut, shutdownCalls,
                 firstShutdownSession, startedWorkers, shutdownOnce, pc, loc>>
  /\ CoreStep

\* the POST returns or raises (timeout, connection error): both are ignored
WorkerPostDone(w) ==
  /\ wpc[w] = "post"
  /\ wpc' = [wpc EXCEPT ![w] = "loop"]
  /\ wclient' = [wclient EXCEPT ![w] = NoClient]
  /\ wbatch' = [wbatch EXCEPT ![w] = <<>>]
  /\ UNCHANGED <<configVars, sessionVars, queueVars, httpVars, histVars,
                 shutdownOnce, pc, loc>>
  /\ CoreStep

\* line 273: _close_http_client() when the loop is left; the thread then ends
WorkerClose(w) ==
  /\ wpc[w] = "close"
  /\ CloseHttpClient
  /\ wpc' = [wpc EXCEPT ![w] = "dead"]
  /\ UNCHANGED <<configVars, sessionVars, queueVars, wbatch, wclient, inflight,
                 nextClient, histVars, shutdownOnce, pc, loc>>
  /\ CoreStep

\* ------------------------------------------------------------------------
\* _on_shutdown / _stop_sender_thread
\* ------------------------------------------------------------------------
\* the local sender_stopped is read by the finally block (line 732); on the
\* paths that returned before line 702 it was never assigned and the read
\* raises UnboundLocalError out of _on_shutdown
FinallyRaises(stopped) == stopped = "unbound"

\* _on_shutdown, called by the atexit hook, by the signal handler or
\* directly.  Lines 667-696: test and set the one-shot flag under
\* _shutdown_lock, then the early returns (flag already set, disabled, never
\* initialized, dev mode), each of which runs the finally block at once;
\* otherwise the counter snapshot and _stop_sender_thread lines 301-307: set
\* the stop event and try to enqueue the None sentinel (queue.Full is
\* swallowed)
CallOnShutdown(t) ==
  /\ pc[t] = "idle"
  /\ shutdownCalls < MaxShutdownCalls
  /\ shutdownCalls' = shutdownCalls + 1
  /\ firstShutdownSession' =
       IF shutdownCalls = 0
         THEN (IF sessionStart THEN "session" ELSE "nosession")
         ELSE firstShutdownSession
  /\ shutdownOnce' = TRUE
  /\ IF ShutdownAlreadyRun \/ ~ANALYTICS_ENABLED \/ ~sessionStart \/ DEV_MODE
       THEN /\ raised' = IF FinallyRaises(loc[t].stopped)
                           THEN raised \cup {"_on_shutdown"} ELSE raised
            /\ UNCHANGED <<pc, queueAtShutdown, senderStopEvent, eventQueue>>
       ELSE /\ queueAtShutdown' = QueueEvents(eventQueue)
            /\ senderStopEvent' = TRUE
            /\ eventQueue' = PutNowait(eventQueue, Sentinel).queue
            /\ Goto(t, "stop_read_thread")
            /\ UNCHANGED raised
  /\ UNCHANGED <<configVars, sessionVars, senderThread, senderStartLock, workerVars,
                 httpVars, nextEv, dropped, shutdownBuilt, syncSends,
                 workerTaken, drainTimedOut, startedWorkers, loc>>
  /\ CoreStep

\* lines 313-314: with _sender_start_lock: thread = _sender_thread
StopReadThread(t) ==
  /\ pc[t] = "stop_read_thread"
  /\ senderStartLock = "free"
  /\ loc' = [loc EXCEPT ![t].thread = senderThread]
  /\ Goto(t, "stop_join")
  /\ UNCHANGED <<configVars, sessionVars, queueVars, workerVars, httpVars, histVars,
                 shutdownOnce>>
  /\ CoreStep

\* lines 315-318: join(timeout) and `return not thread.is_alive()`: the join
\* ends when the worker has ended or when the timeout expires with the worker
\* still alive; line 707 then builds the shutdown event
StopJoin(t) ==
  /\ pc[t] = "stop_join"
  /\ loc' = [loc EXCEPT ![t].stopped =
                             IF IsAlive(loc[t].thread) THEN "false" ELSE "true",
                           ![t].thread = NoWorker]
  /\ shutdownBuilt' = shutdownBuilt + 1
  /\ Goto(t, "drain")
  /\ UNCHANGED <<configVars, sessionVars, queueVars, workerVars, httpVars,
                 nextEv, dropped, raised, syncSends, workerTaken,
                 queueAtShutdown, drainTimedOut, shutdownCalls, firstShutdownSession,
                 startedWorkers, shutdownOnce>>
  /\ CoreStep

\* lines 712-722: one iteration of the drain loop
Drain(t) ==
  /\ pc[t] = "drain"
  /\ \/ \* line 713: the time budget is used up (with an empty queue this is
        \* the Empty exit below)
        /\ eventQueue # <<>>
        /\ drainTimedOut' = TRUE
        /\ Goto(t, "final_send")
        /\ UNCHANGED <<eventQueue, loc>>
     \/ \* get_nowait raises Empty
        /\ eventQueue = <<>>
        /\ Goto(t, "final_send")
        /\ UNCHANGED <<eventQueue, loc, drainTimedOut>>
     \/ /\ eventQueue # <<>>
        /\ eventQueue' = AfterGet(eventQueue)
        /\ IF Head(eventQueue) = Sentinel
             THEN Goto(t, "final_send") /\ UNCHANGED loc
             ELSE /\ loc' = [loc EXCEPT ![t].drained = @ \o Head(eventQueue).events]
                  /\ UNCHANGED pc
        /\ UNCHANGED drainTimedOut
  /\ UNCHANGED <<configVars, sessionVars, senderThread, senderStopEvent, senderStartLock,
                 workerVars, httpVars, nextEv, dropped, raised, shutdownBuilt,
                 syncSends, workerTaken, queueAtShutdown, shutdownCalls,
                 firstShutdownSession, startedWorkers, shutdownOnce>>
  /\ CoreStep

\* lines 724-725: append the shutdown event, _send_events_sync(drained) up to
\* the start of its POST
FinalSend(t) ==
  /\ pc[t] = "final_send"
  /\ syncSends' = Append(syncSends, FinalBatch(loc[t].drained, ShutdownEvent))
  /\ inflight' = [inflight EXCEPT ![t] = ClientForPost]
  /\ httpClient' = ClientForPost
  /\ nextClient' = IF httpClient = NoClient THEN nextClient + 1 ELSE nextClient
  /\ loc' = [loc EXCEPT ![t].drained = <<>>]
  /\ Goto(t, "final_post")
  /\ UNCHANGED <<configVars, sessionVars, queueVars, workerVars, closedClients,
                 nextEv, dropped, raised, shutdownBuilt, workerTaken,
                 queueAtShutdown, drainTimedOut, shutdownCalls, firstShutdownSession,
                 startedWorkers, shutdownOnce>>
  /\ CoreStep

\* the final POST returns or raises: both are ignored
FinalPostDone(t) ==
  /\ pc[t] = "final_post"
  /\ inflight' = [inflight EXCEPT ![t] = NoClient]
  /\ Goto(t, "shutdown_finally")
  /\ UNCHANGED <<configVars, sessionVars, queueVars, workerVars, httpClient, nextClient,
                 closedClients, histVars, shutdownOnce, loc>>
  /\ CoreStep

\* lines 727-733, after the final send: `if sender_stopped:
\* _close_http_client()`
ShutdownFinally(t) ==
  /\ pc[t] = "shutdown_finally"
  /\ IF FinallyRaises(loc[t].stopped)
       THEN /\ raised' = raised \cup {"_on_shutdown"}
            /\ UNCHANGED <<httpClient, closedClients>>
       ELSE /\ IF loc[t].stopped = "true"
                 THEN CloseHttpClient
                 ELSE UNCHANGED <<httpClient, closedClients>>
            /\ UNCHANGED raised
  /\ Return(t, [loc[t] EXCEPT !.cont = <<>>])
  /\ UNCHANGED <<configVars, sessionVars, queueVars, workerVars, inflight, nextClient,
                 nextEv, dropped, shutdownBuilt, syncSends, workerTaken,
                 queueAtShutdown, drainTimedOut, shutdownCalls, firstShutdownSession,
                 startedWorkers, shutdownOnce>>
  /\ CoreStep

\* ------------------------------------------------------------------------
\* Session properties and client identity
\* (zenml_mcp_analytics.py set_session_properties / set_client_info_once,
\*  zenml_server.py handle_tool_exceptions.wrapper, client capture)
\* ------------------------------------------------------------------------
NoneVal == "<None>"
Absent == "<absent>"

ClientKeys == {"mcp_client_name", "mcp_client_version"}
PropKeys == ClientKeys \cup {"transport"}

\* arguments the callers pass
ClientNames == {NoneVal, "  ", "claude", " cursor "}
ClientVersions == {NoneVal, "  ", "1.0 "}
\* the values a properties dict may carry under each key
PropValues(k) ==
  CASE k = "transport" -> {"stdio", "http"}
    [] k = "mcp_client_name" -> {"", "zed"}
    [] k = "mcp_client_version" -> {"9"}
\* a properties dict: Absent marks a key the dict does not hold
PropDicts ==
  {d \in [PropKeys -> {Absent, "", "stdio", "http", "zed", "9"}] :
     \A k \in PropKeys : d[k] \in PropValues(k) \cup {Absent}}

\* bool(x) of a str-or-None value
Truthy(x) == x # NoneVal /\ x # ""

\* str.strip() on the strings above
Strip(x) ==
  CASE x = "  " -> ""
    [] x = " cursor " -> "cursor"
    [] x = "1.0 " -> "1.0"
    [] OTHER -> x

\* `x.strip() if x else None` (lines 524-525)
Normalized(x) == IF Truthy(x) THEN Strip(x) ELSE NoneVal

\* dict.setdefault(k, v): stores v only when the key is not in the dict
SetAlways(d, k, v) == [d EXCEPT ![k] = v]
SetDefault(d, k, v) == IF d[k] = Absent THEN [d EXCEPT ![k] = v] ELSE d

\* dict.update(p): every key of p takes p's value, the others stay
UpdateMissingOnly(d, p) ==
  [k \in PropKeys |-> IF d[k] = Absent THEN p[k] ELSE d[k]]
DictUpdate(d, p) ==
  [k \in PropKeys |-> IF p[k] # Absent THEN p[k] ELSE d[k]]

\* the dict after set_client_info_once(client_name, client_version)
ClientInfoOnce(d, client_name, client_version) ==
  LET name == Normalized(client_name)
      version == Normalized(client_version)
  IN IF ~Truthy(name) /\ ~Truthy(version) THEN d
     ELSE LET d1 == IF Truthy(name) THEN SetDefault(d, "mcp_client_name", name) ELSE d
          IN IF Truthy(version) THEN SetDefault(d1, "mcp_client_version", version) ELSE d1

\* history: the first value stored under each key
RecordFirst(d) ==
  firstStored' = [k \in PropKeys |-> IF firstStored[k] = Absent THEN d[k] ELSE firstStored[k]]

EmptyDict == [k \in PropKeys |-> Absent]
NoOp == [op |-> "none", name |-> NoneVal, version |-> NoneVal, props |-> EmptyDict]

PropsIdle ==
  /\ sessionProperties = EmptyDict
  /\ mcpClientInfoCaptured = FALSE
  /\ propsOp = NoOp
  /\ firstStored = EmptyDict

PropsStep == UNCHANGED <<coreVars, uidVars, toolVars, classifyVars, normVars, syncVars>>

\* set_session_properties(properties)
SetSessionProperties(properties) ==
  /\ sessionProperties' = DictUpdate(sessionProperties, properties)
  /\ RecordFirst(sessionProperties')
  /\ propsOp' = [NoOp EXCEPT !.op = "set_session_properties", !.props = properties]
  /\ UNCHANGED mcpClientInfoCaptured
  /\ PropsStep

\* set_client_info_once(client_name, client_version)
SetClientInfoOnce(client_name, client_version) ==
  /\ sessionProperties' = ClientInfoOnce(sessionProperties, client_name, client_version)
  /\ RecordFirst(sessionProperties')
  /\ propsOp' = [NoOp EXCEPT !.op = "set_client_info_once",
                             !.name = client_name, !.version = client_version]
  /\ UNCHANGED mcpClientInfoCaptured
  /\ PropsStep

\* the client capture at the head of the tool wrapper: the client reported by
\* the request context is handed to set_client_info_once the first time a
\* request carries a name or a version
CaptureClientInfo(client_name, client_version) ==
  /\ propsOp' = [NoOp EXCEPT !.op = "capture",
                             !.name = client_name, !.version = client_version]
  /\ IF ~mcpClientInfoCaptured /\ (Truthy(client_name) \/ Truthy(client_version))
       THEN /\ mcpClientInfoCaptured' = TRUE
            /\ sessionProperties' =
                 ClientInfoOnce(sessionProperties, client_name, client_version)
            /\ RecordFirst(sessionProperties')
       ELSE UNCHANGED <<mcpClientInfoCaptured, sessionProperties, firstStored>>
  /\ PropsStep

NextProps ==
  \/ \E properties \in PropDicts : SetSessionProperties(properties)
  \/ \E n \in ClientNames, v \in ClientVersions : SetClientInfoOnce(n, v)
  \/ \E n \in ClientNames, v \in ClientVersions : CaptureClientInfo(n, v)

\* ------------------------------------------------------------------------
\* The anonymous user id (zenml_mcp_analytics.py get_or_create_user_id)
\* ------------------------------------------------------------------------
MaxUidCalls == 3
MaxEnvChanges == 1

FileMissing == "<missing>"
Uuid4Values == <<"uuid4-a", "uuid4-b", "uuid4-c", "uuid4-d", "uuid4-e", "uuid4-f",
                 "uuid4-g", "uuid4-h">>
EnvValues == {"", "not-a-uuid", "ENV-UUID"}
FileUnreadable == "<unreadable>"
\* bytes that are not text in the locale encoding
FileUndecodable == "<undecodable>"
FileValues == {FileMissing, FileUnreadable, FileUndecodable, "", "garbage", "file-uuid"}

\* _as_uuid_str: the canonical form of a valid UUID string, None otherwise
AsUuidStr(value) ==
  CASE value = "ENV-UUID" -> "env-uuid"
    [] value \in {"env-uuid", "file-uuid", "uuid5-store"} -> value
    [] value \in SeqToSet(Uuid4Values) -> value
    [] OTHER -> NoneVal

\* str(uuid.uuid4()): a value never produced before
Uuid4 == Uuid4Values[nextUuid + 1]

\* str(uuid.uuid5(uuid.NAMESPACE_URL, store_url)): a function of the URL
Uuid5(url) == "uuid5-store"

UidIdle ==
  /\ userId = ""
  /\ idFile = FileMissing /\ envId = "" /\ fsWritable = TRUE
  /\ inDocker = FALSE /\ storeUrl = ""
  /\ upc = [t \in Threads |-> "idle"]
  /\ returnedIds = {} /\ uidRaised = {}
  /\ nextUuid = 0 /\ uidCalls = 0 /\ envChanges = 0

UidInit ==
  /\ userId = ""
  /\ idFile \in FileValues /\ envId \in EnvValues /\ fsWritable \in BOOLEAN
  /\ inDocker \in BOOLEAN /\ storeUrl \in {"", "https://zenml.example"}
  /\ upc = [t \in Threads |-> "idle"]
  /\ returnedIds = {} /\ uidRaised = {}
  /\ nextUuid = 0 /\ uidCalls = 0 /\ envChanges = 0

UidStep == UNCHANGED <<coreVars, propsVars, toolVars, classifyVars, normVars, syncVars>>
UidEnvUnchanged == UNCHANGED <<idFile, envId, fsWritable, inDocker, storeUrl, envChanges>>
UidGoto(t, label) == upc' = [upc EXCEPT ![t] = label]

\* a thread enters get_or_create_user_id
CallGetOrCreateUserId(t) ==
  /\ upc[t] = "idle"
  /\ uidCalls < MaxUidCalls
  /\ uidCalls' = uidCalls + 1
  /\ UidGoto(t, "check")
  /\ UNCHANGED <<userId, returnedIds, uidRaised, nextUuid>>
  /\ UidEnvUnchanged
  /\ UidStep

\* `if _user_id:` (line 127)
UidCheckCached(t) ==
  /\ upc[t] = "check"
  /\ UidGoto(t, IF userId # "" THEN "return" ELSE "env")
  /\ UNCHANGED <<userId, returnedIds, uidRaised, nextUuid, uidCalls>>
  /\ UidEnvUnchanged
  /\ UidStep

\* the environment override (lines 131-137): a valid value is cached, an
\* invalid one is ignored
UidReadEnv(t) ==
  /\ upc[t] = "env"
  /\ IF envId # "" /\ AsUuidStr(envId) # NoneVal
       THEN /\ userId' = AsUuidStr(envId)
            /\ UidGoto(t, "return")
       ELSE /\ UidGoto(t, "file")
            /\ UNCHANGED userId
  /\ UNCHANGED <<returnedIds, uidRaised, nextUuid, uidCalls>>
  /\ UidEnvUnchanged
  /\ UidStep

\* the persisted file (lines 144-150): a valid stored value is cached; a
\* missing or corrupt file falls through to generation; a file that cannot
\* be read raises OSError; a file that cannot be decoded makes read_text
\* raise UnicodeDecodeError, a ValueError, which `except (OSError,
\* PermissionError)` does not catch: it leaves the function
UidReadFile(t) ==
  /\ upc[t] = "file"
  /\ LET stored == IF idFile = FileMissing THEN "" ELSE idFile
         valid_stored == IF stored # "" THEN AsUuidStr(stored) ELSE NoneVal
     IN IF idFile = FileUndecodable
          THEN /\ UidGoto(t, "idle")
               /\ uidRaised' = uidRaised \cup {"UnicodeDecodeError"}
               /\ UNCHANGED userId
        ELSE IF idFile = FileUnreadable
          THEN /\ UidGoto(t, "except")
               /\ UNCHANGED <<userId, uidRaised>>
        ELSE IF valid_stored # NoneVal
          THEN /\ userId' = valid_stored
               /\ UidGoto(t, "return")
               /\ UNCHANGED uidRaised
          ELSE /\ UidGoto(t, "generate")
               /\ UNCHANGED <<userId, uidRaised>>
  /\ UNCHANGED <<returnedIds, nextUuid, uidCalls>>
  /\ UidEnvUnchanged
  /\ UidStep

\* `_user_id = str(uuid.uuid4())` (line 153)
UidGenerate(t) ==
  /\ upc[t] = "generate"
  /\ userId' = Uuid4
  /\ nextUuid' = nextUuid + 1
  /\ UidGoto(t, "write")
  /\ UNCHANGED <<returnedIds, uidRaised, uidCalls>>
  /\ UidEnvUnchanged
  /\ UidStep

\* mkdir and write_text(_user_id) (lines 154-155): the global is read again
\* for the text written; OSError leads to the except clause
UidWriteFile(t) ==
  /\ upc[t] = "write"
  /\ IF fsWritable
       THEN /\ idFile' = userId
            /\ UidGoto(t, "return")
       ELSE /\ UidGoto(t, "except")
            /\ UNCHANGED idFile
  /\ UNCHANGED <<userId, returnedIds, uidRaised, nextUuid, uidCalls>>
  /\ UNCHANGED <<envId, fsWritable, inDocker, storeUrl, envChanges>>
  /\ UidStep

\* the except clause (lines 157-168): a deterministic id inside Docker when
\* a store URL is set, a fresh random id otherwise
UidFallback(t) ==
  /\ upc[t] = "except"
  /\ IF inDocker /\ storeUrl # ""
       THEN /\ userId' = Uuid5(storeUrl)
            /\ UNCHANGED nextUuid
       ELSE /\ userId' = Uuid4
            /\ nextUuid' = nextUuid + 1
  /\ UidGoto(t, "return")
  /\ UNCHANGED <<returnedIds, uidRaised, uidCalls>>
  /\ UidEnvUnchanged
  /\ UidStep

\* `return _user_id`: the value of the global at the time of the return
UidReturn(t) ==
  /\ upc[t] = "return"
  /\ returnedIds' = returnedIds \cup {userId}
  /\ UidGoto(t, "idle")
  /\ UNCHANGED <<userId, uidRaised, nextUuid, uidCalls>>
  /\ UidEnvUnchanged
  /\ UidStep

\* the surroundings change while the process runs: the override is set or
\* unset, the file is replaced or removed, the directory turns read-only
ChangeEnvironment ==
  /\ envChanges < MaxEnvChanges
  /\ envChanges' = envChanges + 1
  /\ \/ envId' \in EnvValues \ {envId} /\ UNCHANGED <<idFile, fsWritable>>
     \/ idFile' \in FileValues \ {idFile} /\ UNCHANGED <<envId, fsWritable>>
     \/ fsWritable' = ~fsWritable /\ UNCHANGED <<envId, idFile>>
  /\ UNCHANGED <<userId, upc, returnedIds, uidRaised, nextUuid, uidCalls, inDocker, storeUrl>>
  /\ UidStep

NextUid ==
  \/ \E t \in Threads : CallGetOrCreateUserId(t)
  \/ \E t \in Threads : UidCheckCached(t)
  \/ \E t \in Threads : UidReadEnv(t)
  \/ \E t \in Threads : UidReadFile(t)
  \/ \E t \in Threads : UidGenerate(t)
  \/ \E t \in Threads : UidWriteFile(t)
  \/ \E t \in Threads : UidFallback(t)
  \/ \E t \in Threads : UidReturn(t)
  \/ ChangeEnvironment

\* ------------------------------------------------------------------------
\* The datetime filter normalizer
\* (zenml_server.py _parse_iso_to_zenml / _norm_datetime_token /
\*  _normalize_datetime_filter)
\* ------------------------------------------------------------------------
\* A filter value is a sequence of tokens.  A token is a literal piece of
\* text, a date YYYY-MM-DD, a time of day, a fraction of a second ".ddd" or a
\* zone designator; the regular expressions, partition and split of the source
\* work on the characters the tokens stand for.
Tok(k, s, n, f) == [k |-> k, s |-> s, n |-> n, f |-> f]
Lit(s) == Tok("lit", s, 0, FALSE)
\* a date: the day number, and whether the calendar has that day
\* (2026-02-30 has the shape of a date and is none)
DateTok(day, valid) == Tok("date", "YYYY-MM-DD", day, valid)
\* what strftime("%Y-%m-%d") writes for a year before 1000: the year without
\* its leading zeros, which is no YYYY-MM-DD string
ShortYearDateTok(day) == Tok("shortdate", "Y-MM-DD", day, TRUE)
\* a time of day: the hour and the rest, "00" (HH:MM), "00:00" or "59:59"
\* (HH:MM:SS)
TimeTok(hour, tail) == Tok("time", tail, hour, TRUE)
FracTok == Tok("frac", ".123", 0, FALSE)
\* "Z", or an offset of n hours written +HH:00 / -HH:00
ZoneZ == Tok("zone", "Z", 0, TRUE)
ZoneTok(hours) == Tok("zone", "offset", hours, TRUE)
NoZone == Tok("nozone", "", 0, FALSE)

COLON == Lit(":")
COMMA == Lit(",")
DOTDOT == Lit("..")
TSEP == Lit("T")
SP == Lit(" ")

\* the first and the last day datetime can hold (0001-01-01, 9999-12-31), on
\* the scale of the day numbers used here
MinDay == 1
MaxDay == 9

KNOWN_OPS_DATETIME_ONLY == {"equals", "notequals", "gte", "gt", "lte", "lt", "in"}
KNOWN_OPS ==
  {"equals", "notequals", "contains", "startswith", "endswith", "oneof", "gte", "gt",
   "lte", "lt", "in"}
UPPER_BOUND_OPS_NONE == {}
UPPER_BOUND_OPS == {"lte", "lt"}

MinOf(S) == CHOOSE x \in S : \A y \in S : x <= y
MaxOf(S) == CHOOSE x \in S : \A y \in S : x >= y

\* str.strip() on a token sequence
StripTokens(s) ==
  LET idx == {i \in DOMAIN s : s[i] # SP}
  IN IF idx = {} THEN <<>> ELSE SubSeq(s, MinOf(idx), MaxOf(idx))

\* _DATE_ONLY_RE, _ISO_DT_RE, _SPACE_FRAC_RE
DATE_ONLY_RE(s) == Len(s) = 1 /\ s[1].k = "date"
ISO_DT_RE(s) ==
  /\ Len(s) \in 3..5
  /\ s[1].k = "date" /\ s[2] = TSEP /\ s[3].k = "time"
  /\ \/ Len(s) = 3
     \/ Len(s) = 4 /\ s[4].k \in {"frac", "zone"}
     \/ Len(s) = 5 /\ s[4].k = "frac" /\ s[5].k = "zone"
SPACE_FRAC_RE(s) ==
  /\ Len(s) = 4
  /\ s[1].k = "date" /\ s[2] = SP /\ s[3].k = "time" /\ s[3].s # "00"
  /\ s[4].k = "frac"

\* what a call does: it returns a value, or an exception leaves it
Returns(v) == [done |-> TRUE, value |-> v, raised |-> ""]
RaisesOut(cls) == [done |-> TRUE, value |-> <<>>, raised |-> cls]
NotCalled == [done |-> FALSE, value |-> <<>>, raised |-> ""]
\* _parse_iso_to_zenml returning None
ParsedNone == [done |-> TRUE, value |-> <<>>, raised |-> "<None>"]

\* dt.strftime("%Y-%m-%d %H:%M:%S")
Strftime(day, hour, tail) ==
  << IF day = MinDay THEN ShortYearDateTok(day) ELSE DateTok(day, TRUE), SP,
     TimeTok(hour, IF tail = "00" THEN "00:00" ELSE tail) >>

\* _parse_iso_to_zenml on a string that matches _ISO_DT_RE: fromisoformat
\* rejects a day the calendar does not have and an hour above 23 (ValueError,
\* caught: None); a value with a zone is moved to UTC, which raises
\* OverflowError when the result leaves the range of datetime, and
\* OverflowError is not caught
ParseIsoToZenml(s) ==
  LET d == s[1]
      t == s[3]
      zone == IF s[Len(s)].k = "zone" THEN s[Len(s)] ELSE NoZone
      shifted == t.n - zone.n
      day == IF shifted < 0 THEN d.n - 1 ELSE IF shifted > 23 THEN d.n + 1 ELSE d.n
      hour == (shifted + 24) % 24
  IN IF ~d.f \/ t.n > 23 THEN ParsedNone
     ELSE IF zone # NoZone /\ (day < MinDay \/ day > MaxDay) THEN RaisesOut("OverflowError")
     ELSE Returns(Strftime(day, hour, t.s))

\* '23:59:59' if upper_bound else '00:00:00'
TimeOfDay(upper_bound) == IF upper_bound THEN TimeTok(23, "59:59") ELSE TimeTok(0, "00:00")

\* _norm_datetime_token(s, upper_bound=...)
NormDatetimeToken(s0, upper_bound) ==
  LET s == StripTokens(s0)
  IN IF ISO_DT_RE(s) /\ ParseIsoToZenml(s).raised = "OverflowError"
       THEN RaisesOut("OverflowError")
     ELSE IF ISO_DT_RE(s) /\ ParseIsoToZenml(s).raised = "" THEN ParseIsoToZenml(s)
     ELSE IF SPACE_FRAC_RE(s) THEN Returns(SubSeq(s, 1, 3))
     ELSE IF DATE_ONLY_RE(s) THEN Returns(s \o <<SP, TimeOfDay(upper_bound)>>)
     ELSE Returns(s)

\* f"in:{lower},{upper}" of the two normalized tokens; the exception of the
\* first token that raises leaves the function
PairBothLower(lower, upper) ==
  LET l == NormDatetimeToken(lower, FALSE)
      u == NormDatetimeToken(upper, FALSE)
  IN IF l.raised # "" THEN l
     ELSE IF u.raised # "" THEN u
     ELSE Returns(<<Lit("in"), COLON>> \o l.value \o <<COMMA>> \o u.value)
Pair(lower, upper) ==
  LET l == NormDatetimeToken(lower, FALSE)
      u == NormDatetimeToken(upper, TRUE)
  IN IF l.raised # "" THEN l
     ELSE IF u.raised # "" THEN u
     ELSE Returns(<<Lit("in"), COLON>> \o l.value \o <<COMMA>> \o u.value)

\* _RANGE_RE: "range:", the shortest non-empty lower part, "..", a non-empty
\* upper part; the index of that "..", 0 when there is no match
RangeSplit(raw) ==
  LET cand == {i \in 4..(Len(raw) - 1) : raw[i] = DOTDOT}
  IN IF Len(raw) >= 5 /\ raw[1] = Lit("range") /\ raw[2] = COLON /\ cand # {}
       THEN MinOf(cand) ELSE 0

\* whether the characters of a token include a colon
HasColon(tok) == tok = COLON \/ tok.k = "time" \/ (tok.k = "zone" /\ tok.s = "offset")

\* raw.partition(":") followed by `sep and head in _KNOWN_OPS`: the operator,
\* or "" for None
OpOf(raw) ==
  LET colons == {i \in DOMAIN raw : HasColon(raw[i])}
  IN IF colons = {} THEN ""
     ELSE LET i == MinOf(colons)
          IN IF raw[i] = COLON /\ i = 2 /\ raw[1].k = "lit" /\ raw[1].s \in KNOWN_OPS
               THEN raw[1].s ELSE ""

\* _normalize_datetime_filter(value)
NormalizeDatetimeFilter(value) ==
  LET raw == StripTokens(value)
      dots == RangeSplit(raw)
      op == OpOf(raw)
      rest == IF op # "" THEN SubSeq(raw, 3, Len(raw)) ELSE raw
      commas == {i \in DOMAIN rest : rest[i] = COMMA}
  IN IF raw = <<>> THEN Returns(value)
     ELSE IF dots # 0
       THEN Pair(SubSeq(raw, 3, dots - 1), SubSeq(raw, dots + 1, Len(raw)))
     ELSE IF op = "in" /\ commas # {}
       THEN Pair(SubSeq(rest, 1, MinOf(commas) - 1),
                 SubSeq(rest, MinOf(commas) + 1, Len(rest)))
     ELSE LET norm == NormDatetimeToken(rest, op \in UPPER_BOUND_OPS)
          IN IF norm.raised # "" THEN norm
             ELSE IF op # "" THEN Returns(<<Lit(op), COLON>> \o norm.value)
             ELSE norm

\* ---- the values the normalizer is applied to ----
\* valid dates and datetimes
ValidTokens ==
  { <<DateTok(5, TRUE)>>,
    <<DateTok(6, TRUE)>>,
    <<DateTok(5, TRUE), TSEP, TimeTok(10, "00")>>,
    <<DateTok(5, TRUE), TSEP, TimeTok(10, "00:00"), ZoneZ>>,
    <<DateTok(5, TRUE), TSEP, TimeTok(1, "00:00"), ZoneTok(2)>>,
    <<DateTok(5, TRUE), TSEP, TimeTok(23, "00:00"), FracTok, ZoneTok(-5)>>,
    <<DateTok(5, TRUE), SP, TimeTok(10, "00:00")>>,
    <<DateTok(5, TRUE), SP, TimeTok(10, "00:00"), FracTok>>,
    <<DateTok(MinDay, TRUE), TSEP, TimeTok(10, "00")>>,
    <<DateTok(MinDay, TRUE), TSEP, TimeTok(1, "00"), ZoneTok(2)>>,
    <<DateTok(MaxDay, TRUE), TSEP, TimeTok(23, "00"), ZoneTok(-5)>> }
\* strings with the shape of a date or datetime that are none
InvalidTokens ==
  { <<DateTok(7, FALSE)>>,
    <<DateTok(7, FALSE), TSEP, TimeTok(10, "00")>>,
    <<DateTok(5, TRUE), TSEP, TimeTok(24, "00")>> }
\* other payloads
OtherPayloads ==
  { <<>>,
    <<Lit("foo")>>,
    <<Lit("completed"), COMMA, Lit("failed")>>,
    <<DateTok(5, TRUE), COMMA, DateTok(6, TRUE)>>,
    <<Lit("a"), SP, COMMA, Lit("b")>>,
    <<Lit("x"), DOTDOT, Lit("y")>>,
    <<Lit("lte"), COLON, DateTok(5, TRUE)>>,
    <<SP, Lit("foo"), SP>>,
    <<SP, DateTok(5, TRUE)>> }
Payloads == ValidTokens \cup InvalidTokens \cup OtherPayloads
\* what stands before the first colon: the operators, "range", and an
\* operator in upper case
Prefixes ==
  {"equals", "notequals", "contains", "startswith", "endswith", "oneof", "gte", "gt",
   "lte", "lt", "in", "range", "GTE"}

Prefixed(op, payload) == <<Lit(op), COLON>> \o payload
RangeOf(a, b) == <<Lit("range"), COLON>> \o a \o <<DOTDOT>> \o b
InOf(a, b) == <<Lit("in"), COLON>> \o a \o <<COMMA>> \o b

FilterValues ==
  Payloads
  \cup { Prefixed(op, p) : op \in Prefixes, p \in Payloads }
  \cup { RangeOf(a, b) : a \in Payloads \ {<<>>}, b \in Payloads \ {<<>>} }
  \cup { InOf(a, b) : a \in ValidTokens \cup InvalidTokens,
                      b \in ValidTokens \cup InvalidTokens }
  \cup { <<SP>> \o Prefixed(op, p) \o <<SP>> : op \in {"gte", "contains"}, p \in Payloads }
  \cup { <<SP, SP>> }

NormIdle == nvalue = <<>> /\ nresult = NotCalled /\ nagain = NotCalled
NormInit == nvalue \in FilterValues /\ nresult = NotCalled /\ nagain = NotCalled
NormStep == UNCHANGED <<coreVars, propsVars, uidVars, toolVars, classifyVars, syncVars>>

\* _normalize_datetime_filter(value)
CallNormalizeDatetimeFilter ==
  /\ ~nresult.done
  /\ nresult' = NormalizeDatetimeFilter(nvalue)
  /\ UNCHANGED <<nvalue, nagain>>
  /\ NormStep

\* the value returned is passed as a filter value again and normalized on
\* that call (lines 529-533)
NormalizeAgain ==
  /\ nresult.done /\ nresult.raised = ""
  /\ ~nagain.done
  /\ nagain' = NormalizeDatetimeFilter(nresult.value)
  /\ UNCHANGED <<nvalue, nresult>>
  /\ NormStep

NextNorm ==
  \/ CallNormalizeDatetimeFilter
  \/ NormalizeAgain

\* ------------------------------------------------------------------------
\* The tool wrapper (zenml_server.py handle_tool_exceptions)
\* ------------------------------------------------------------------------
\* Python values the wrapper handles: a str, or a dict with its items
PyStr(s) == [kind |-> "str", str |-> s]
PyDict(items) == [kind |-> "dict", items |-> items]
NoResult == [kind |-> "none"]

\* http_status_code = None
NoStatus == 0

\* A text (str(exc), a message, a details value) is a sequence of tokens: a
\* word, written as it stands, or a URL with its parts
Word(w) ==
  [kind |-> "word", w |-> w, scheme |-> "", cred |-> "", host |-> "", path |-> "",
   query |-> ""]
Url(scheme, cred, host, path, query) ==
  [kind |-> "url", w |-> "", scheme |-> scheme, cred |-> cred, host |-> host,
   path |-> path, query |-> query]
Text(s) == <<Word(s)>>

\* number of tokens kept by str(exc)[:300] (line 352) and by msg[:200]
\* (line 417), scaled down with the texts
SnippetLimit == 3
VersionMessageLimit == 2

\* text[:n]
Truncate(text, n) == SubSeq(text, 1, IF Len(text) < n THEN Len(text) ELSE n)

\* str.strip(): leading and trailing whitespace is dropped
IsSpace(tok) == tok.kind = "word" /\ tok.w \in {" ", "\n"}
StripText(text) ==
  LET idx == {i \in DOMAIN text : ~IsSpace(text[i])}
  IN IF idx = {} THEN <<>> ELSE SubSeq(text, MinOf(idx), MaxOf(idx))

\* the substrings the classifier looks for, and the words that hold them
Markers(w) ==
  CASE w = "No project is currently set as active" ->
         {"No project is currently set as active"}
    [] w = "ZenML" -> {"ZenML"}
    [] w = "version" -> {"version"}
    [] w = "incompatible" -> {"incompatible"}
    [] OTHER -> {}

\* `marker in text`
Contains(text, marker) ==
  \E i \in DOMAIN text : text[i].kind = "word" /\ marker \in Markers(text[i].w)

\* str.lower() on the words that differ from their lower-case form
LowerWord(w) ==
  CASE w = "ZenML" -> "zenml"
    [] w = "Version" -> "version"
    [] w = "INCOMPATIBLE" -> "incompatible"
    [] w = "No project is currently set as active" ->
         "no project is currently set as active"
    [] OTHER -> w
Lower(text) ==
  [i \in DOMAIN text |->
     IF text[i].kind = "word" THEN Word(LowerWord(text[i].w)) ELSE text[i]]

\* _redact_url: scheme and hostname only
RedactUrl(url) ==
  IF url.scheme # "" /\ url.host # "" THEN Url(url.scheme, "", url.host, "", "")
  ELSE IF url.host # "" THEN Word(url.host)
  ELSE Word("<invalid-url>")

\* the wrapped tools: name and declared return type
WrappedTools ==
  { [name |-> "get_step_code", returns |-> "str"],
    [name |-> "get_step_logs", returns |-> "dict"],
    [name |-> "list_pipeline_runs", returns |-> "dict"] }

\* _is_text_tool: whether the declared return type is str; when the type
\* hints cannot be resolved the tool counts as structured
IsTextTool(tool, hintsResolve) == hintsResolve /\ tool.returns = "str"

\* exceptions: class name, the classes isinstance() accepts, module of the
\* class (NoneVal when __module__ is None), str(exc), and the status code of
\* the attached response
Exc(cls, bases, mod, text, status) ==
  [cls |-> cls, bases |-> bases \cup {cls}, mod |-> mod, text |-> text, status |-> status]
NoExc == Exc("<none>", {}, "", <<>>, NoStatus)

\* str(exc) of a class whose __str__ returns something that is no str (for
\* instance `return self.message` with a dict or None as message): the call
\* raises TypeError
StrRaises ==
  <<[kind |-> "raises", w |-> "TypeError", scheme |-> "", cred |-> "", host |-> "",
     path |-> "", query |-> ""]>>
StrOfRaises(exc) == exc.text = StrRaises
TypeErrorExc ==
  Exc("TypeError", {"Exception"}, "builtins", Text("__str__ returned non-string"), NoStatus)

SecretUrl == Url("https", "user:s3cr3t", "zenml.example", "/api/v1/runs", "token=abc")

HTTPErrors ==
  { Exc("HTTPError", {"RequestException", "OSError", "Exception"}, "requests.exceptions",
        <<Word("HTTP error for url:"), SecretUrl>>, st) :
      st \in {NoStatus, 401, 403, 404, 422, 500} }
  \cup { Exc("GatewayError", {"HTTPError", "RequestException", "OSError", "Exception"},
             "client.errors", StrRaises, 500) }
OverflowExc ==
  Exc("OverflowError", {"ArithmeticError", "Exception"}, "builtins",
      Text("date value out of range"), NoStatus)
OtherExceptions ==
  { Exc("ValidationError", {"ValueError", "Exception"}, "pydantic_core._pydantic_core",
        <<Word("1 validation error for"), Word("PipelineRunFilter")>>, NoStatus),
    Exc("ValueError", {"Exception"}, "builtins",
        <<Word("ZENML_STORE_URL"), Word(" environment variable not set")>>, NoStatus),
    Exc("ValueError", {"Exception"}, "builtins", Text("invalid literal"), NoStatus),
    Exc("ModuleNotFoundError", {"ImportError", "Exception"}, "builtins",
        Text("No module named 'zenml'"), NoStatus),
    Exc("ConnectionError", {"requests.ConnectionError", "RequestException", "OSError",
        "Exception"}, "requests.exceptions", Text("connection refused"), NoStatus),
    Exc("CredentialsNotValid", {"Exception"}, "zenml.exceptions", Text("token expired"),
        NoStatus),
    Exc("RuntimeError", {"Exception"}, "builtins",
        Text("No project is currently set as active"), NoStatus),
    Exc("RuntimeError", {"Exception"}, "builtins",
        <<Word("ZenML"), Word("version"), Word("incompatible")>>, NoStatus),
    Exc("KeyError", {"LookupError", "Exception"}, "builtins", Text("'api_key_s3cr3t'"),
        NoStatus),
    Exc("ApiError", {"Exception"}, "client.errors", StrRaises, NoStatus) }
\* raised through the tool body but not a subclass of Exception
KeyboardInterruptExc ==
  Exc("KeyboardInterrupt", {"BaseException"}, "builtins", <<>>, NoStatus)

IsInstance(exc, cls) == cls \in exc.bases

\* the values of the datetime filter keyword arguments of a call
\*   "none":     no created/updated/start_time/end_time argument
\*   "date":     created="gte:<date>"
\*   "overflow": created="0001-01-01T00:00+05:00", whose conversion to UTC
\*               raises OverflowError inside _parse_iso_to_zenml
FilterKinds == {"none", "date", "overflow"}
FilterValue(filter) ==
  CASE filter = "date" -> Prefixed("gte", <<DateTok(5, TRUE)>>)
    [] filter = "overflow" -> <<DateTok(MinDay, TRUE), TSEP, TimeTok(0, "00"), ZoneTok(5)>>
    [] OTHER -> <<>>
\* call_kwargs[key] = _normalize_datetime_filter(call_kwargs[key]) raising
NormalizationRaises(filter) ==
  filter # "none" /\ NormalizeDatetimeFilter(FilterValue(filter)).raised # ""

\* details dict of _classify_exception: raw_type, the status when known, and
\* at most one further key
Details(raw_type, status, key, value) ==
  [raw_type |-> raw_type, http_status_code |-> status, key |-> key, value |-> value]

\* what _classify_exception does: it returns a triple, or an exception
\* leaves it
Triple(c, m, d) == [category |-> c, message |-> m, details |-> d, raised |-> ""]
ClassifyRaises(cls) ==
  [category |-> "", message |-> <<>>, details |-> Details("", NoStatus, "", <<>>),
   raised |-> cls]

FilterSyntaxHelp == Word("\n\nFILTER SYNTAX REFERENCE: ...")
\* tool_name.startswith("list_")
IsListTool(tool_name) == tool_name \in {"list_pipeline_runs"}
Snippet(text) == Truncate(text, SnippetLimit)

\* the branch for requests.HTTPError (lines 291-343)
HttpRule(tool_name, raw_type, status) ==
  LET d == Details(raw_type, status, "", <<>>) IN
  CASE status = 401 ->
         Triple("AuthenticationError",
                Text("Authentication failed. Please check your API key."), d)
    [] status = 403 ->
         Triple("AuthenticationError",
                Text("Authorization failed. Your API key may not have access."), d)
    [] status = 404 /\ tool_name = "get_step_logs" ->
         Triple("NotFound", Text("Logs not found. Please check the step ID. ..."), d)
    [] status = 404 /\ tool_name = "get_deployment_logs" ->
         Triple("NotFound", Text("Deployment not found or logs unavailable. ..."), d)
    [] status = 404 /\ tool_name \notin {"get_step_logs", "get_deployment_logs"} ->
         Triple("NotFound", Text("Resource not found (HTTP 404)."), d)
    [] status # NoStatus /\ status \notin {401, 403, 404} /\ 400 <= status /\ status < 500 ->
         Triple("ConfigurationError",
                <<Word("Request failed (HTTP "), Word(ToString(status)),
                  Word("). Please check your inputs and configuration.")>>, d)
    [] status # NoStatus /\ status >= 500 ->
         Triple("UpstreamError",
                <<Word("ZenML server error (HTTP "), Word(ToString(status)),
                  Word("). Please try again later.")>>, d)
    [] OTHER -> Triple("UpstreamError", Text("Request failed."), d)

\* "pydantic" in exc_mod, "Validation" in raw_type (line 350)
PydanticModules == {"pydantic", "pydantic.errors", "pydantic_core._pydantic_core"}
ValidationNames == {"ValidationError", "SchemaValidationFailure"}

\* is_validation (lines 347-351), decided from the class name and module
IsValidationBySniffing(exc) ==
  \/ exc.cls = "ValidationError"
  \/ exc.mod \in PydanticModules /\ exc.cls \in ValidationNames
  \/ \E i \in DOMAIN exc.text : exc.text[i] = Word("validation error")
IsValidation(exc) ==
  \/ exc.cls = "ValidationError"
  \/ exc.mod \in PydanticModules /\ exc.cls \in ValidationNames

\* `"pydantic" in exc_mod` with __module__ None raises TypeError; the test
\* is reached when the class name is not ValidationError
ModuleTestRaises(exc) == exc.cls # "ValidationError" /\ exc.mod = NoneVal

\* the validation branch (lines 352-366)
ValidationRule(tool_name, exc) ==
  Triple("ValidationError",
         <<Word("Validation failed. Please check your inputs.\n\n")>> \o Snippet(exc.text)
           \o (IF IsListTool(tool_name) THEN <<FilterSyntaxHelp>> ELSE <<>>),
         Details(exc.cls, NoStatus, "validation_error", Snippet(exc.text)))

\* _ERROR_MISSING_ENV_RE.match(msg.strip()): the variable named, NoneVal when
\* the text is not exactly "<VAR> environment variable not set"
EnvVarNames == {"ZENML_STORE_URL", "FOO_1"}
MissingEnvVar(msg) ==
  LET s == StripText(msg)
  IN IF /\ Len(s) = 2
        /\ s[1].kind = "word" /\ s[1].w \in EnvVarNames
        /\ s[2] = Word(" environment variable not set")
       THEN s[1].w ELSE NoneVal

\* the default branch (lines 425-433): the text of the exception is shown for
\* ImportError and RuntimeError and in dev mode, otherwise the type name only
DefaultMessageWithText(tool_name, exc, msg, dev) ==
  <<Word("Error in "), Word(tool_name), Word(": ")>> \o msg
DefaultMessage(tool_name, exc, msg, dev) ==
  IF IsInstance(exc, "ImportError") \/ IsInstance(exc, "RuntimeError") \/ dev
    THEN <<Word("Error in "), Word(tool_name), Word(": ")>> \o msg
    ELSE <<Word("Error in "), Word(tool_name), Word(": "), Word(exc.cls)>>

\* the rules that read msg = str(exc) (lines 403-433): no active project,
\* version mismatch, default
ClassifyByMessageVersionFirst(tool_name, exc, msg, dev) ==
  LET plain == Details(exc.cls, NoStatus, "", <<>>) IN
  IF Contains(msg, "ZenML")
       /\ (Contains(Lower(msg), "version") \/ Contains(Lower(msg), "incompatible")) THEN
    Triple("VersionMismatch",
           Text("Version mismatch between this MCP server and your ZenML installation/server."),
           Details(exc.cls, NoStatus, "version_message", Truncate(msg, VersionMessageLimit)))
  ELSE IF Contains(msg, "No project is currently set as active") THEN
    Triple("ProjectNotConfigured",
           Text("No project is currently set as active. Set ZENML_ACTIVE_PROJECT_ID (or configure an active project in ZenML)."),
           plain)
  ELSE
    Triple("UnexpectedError", DefaultMessage(tool_name, exc, msg, dev), plain)
ClassifyByMessage(tool_name, exc, msg, dev) ==
  LET plain == Details(exc.cls, NoStatus, "", <<>>) IN
  IF Contains(msg, "No project is currently set as active") THEN
    Triple("ProjectNotConfigured",
           Text("No project is currently set as active. Set ZENML_ACTIVE_PROJECT_ID (or configure an active project in ZenML)."),
           plain)
  ELSE IF Contains(msg, "ZenML")
            /\ (Contains(Lower(msg), "version") \/ Contains(Lower(msg), "incompatible")) THEN
    Triple("VersionMismatch",
           Text("Version mismatch between this MCP server and your ZenML installation/server."),
           Details(exc.cls, NoStatus, "version_message", Truncate(msg, VersionMessageLimit)))
  ELSE
    Triple("UnexpectedError", DefaultMessage(tool_name, exc, msg, dev), plain)

\* _classify_exception(tool_name, exc, http_status_code), with DEV_MODE of the
\* analytics module.  str(exc) is evaluated by the validation branch, by the
\* missing-variable test on a ValueError, by the import branch and before the
\* message rules; where it raises, the exception leaves the classifier
ClassifyException(tool_name, exc, status, dev) ==
  LET raw_type == exc.cls
      plain == Details(raw_type, NoStatus, "", <<>>)
  IN
  IF IsInstance(exc, "HTTPError") THEN HttpRule(tool_name, raw_type, status)
  ELSE IF ModuleTestRaises(exc) THEN ClassifyRaises("TypeError")
  ELSE IF IsValidation(exc) THEN
    IF StrOfRaises(exc) THEN ClassifyRaises("TypeError")
    ELSE ValidationRule(tool_name, exc)
  ELSE IF IsInstance(exc, "ValueError") /\ StrOfRaises(exc) THEN ClassifyRaises("TypeError")
  ELSE IF IsInstance(exc, "ValueError") /\ MissingEnvVar(exc.text) # NoneVal THEN
    Triple("ConfigurationError",
           <<Word("Missing required environment variable: "), Word(MissingEnvVar(exc.text)),
             Word(".")>>,
           Details(raw_type, NoStatus, "missing_env_var", Text(MissingEnvVar(exc.text))))
  ELSE IF IsInstance(exc, "ImportError") THEN
    IF StrOfRaises(exc) THEN ClassifyRaises("TypeError")
    ELSE Triple("DependencyMissing",
                <<Word("Missing dependency or integration: ")>> \o exc.text,
                Details(raw_type, NoStatus, "import_error", exc.text))
  ELSE IF IsInstance(exc, "requests.Timeout") \/ IsInstance(exc, "requests.ConnectionError") THEN
    Triple("UpstreamError",
           Text("Could not reach ZenML server. Please check network connectivity and ZENML_STORE_URL."),
           Details(raw_type, NoStatus, "connection_error", Text(raw_type)))
  ELSE IF raw_type \in {"CredentialsNotValid", "AuthorizationException"} THEN
    Triple("AuthenticationError",
           Text("Authentication to ZenML failed. Check your ZENML_STORE_API_KEY."), plain)
  ELSE IF StrOfRaises(exc) THEN ClassifyRaises("TypeError")
  ELSE ClassifyByMessage(tool_name, exc, exc.text, dev)

\* _make_error_result: the structured envelope; http_status_code is present
\* only when known
MakeErrorResult(tool_name, message, error_type, http_status_code, details) ==
  PyDict([error |-> PyDict([tool |-> tool_name, message |-> message, type |-> error_type,
                            http_status_code |-> http_status_code, details |-> details])])

\* a value of an error dict that is no str: None as tool or type, None as
\* message (a message is a text, so its None is a text of one marker token)
NoneText ==
  <<[kind |-> "none", w |-> "", scheme |-> "", cred |-> "", host |-> "", path |-> "",
     query |-> ""]>>
\* isinstance(error[k], str) (line 114)
IsStrItem(k, v) == IF k = "message" THEN v # NoneText ELSE v # NoneVal

\* _is_structured_error_envelope: a dict whose "error" item is a dict holding
\* tool, message and type, each of them a str
IsStructuredErrorEnvelopeKeysOnly(payload) ==
  /\ payload.kind = "dict"
  /\ "error" \in DOMAIN payload.items
  /\ payload.items.error.kind = "dict"
  /\ {"tool", "message", "type"} \subseteq DOMAIN payload.items.error.items
IsStructuredErrorEnvelope(payload) ==
  /\ payload.kind = "dict"
  /\ "error" \in DOMAIN payload.items
  /\ payload.items.error.kind = "dict"
  /\ {"tool", "message", "type"} \subseteq DOMAIN payload.items.error.items
  /\ \A k \in {"tool", "message", "type"} : IsStrItem(k, payload.items.error.items[k])

\* what the except clauses return: the message for a text tool, the envelope
\* for a structured tool
ErrorReturnEnvelopeOnly(text_tool, func_name, message, category, status, details) ==
  MakeErrorResult(func_name, message, category, status, details)
ErrorReturn(text_tool, func_name, message, category, status, details) ==
  IF text_tool THEN PyStr(message)
  ELSE MakeErrorResult(func_name, message, category, status, details)

\* what a tool body can do: return a value of its declared type, return a
\* dict with an "error" item that is no envelope (a str, a dict without
\* "type", a dict whose type or message is None), return an envelope, or raise
BodyOutcomes(tool) ==
  (IF tool.returns = "str"
     THEN { [kind |-> "return", value |-> PyStr(Text("def step(): ...")), exc |-> NoExc] }
     ELSE { [kind |-> "return", value |-> PyDict([total |-> 1]), exc |-> NoExc],
            [kind |-> "return", value |-> PyDict([error |-> PyStr(Text("step failed"))]),
             exc |-> NoExc],
            [kind |-> "return",
             value |-> PyDict([error |-> PyDict([tool |-> tool.name,
                                                 message |-> Text("step failed")])]),
             exc |-> NoExc],
            [kind |-> "return",
             value |-> MakeErrorResult(tool.name, Text("step failed"), NoneVal, NoStatus,
                                       Details("", NoStatus, "", <<>>)),
             exc |-> NoExc],
            [kind |-> "return",
             value |-> MakeErrorResult(tool.name, NoneText, "StepFailed", NoStatus,
                                       Details("", NoStatus, "", <<>>)),
             exc |-> NoExc],
            [kind |-> "return",
             value |-> MakeErrorResult(tool.name, Text("not available"),
                                       "ConfigurationError", NoStatus,
                                       Details("", NoStatus, "", <<>>)),
             exc |-> NoExc] })
  \cup { [kind |-> "raise", value |-> NoResult, exc |-> e] :
           e \in HTTPErrors \cup OtherExceptions \cup {KeyboardInterruptExc} }

NoCall == [tool |-> [name |-> "", returns |-> ""], text_tool |-> FALSE,
           filter |-> "none", outcome |-> [kind |-> "none", value |-> NoResult, exc |-> NoExc],
           track_fails |-> FALSE]
NoLocals == [success |-> TRUE, error_type |-> "", http_status_code |-> NoStatus, exc |-> NoExc]
NoRecord == [tool_name |-> "", success |-> TRUE, error_type |-> "",
             http_status_code |-> NoStatus]

ToolIdle ==
  /\ tpc = "idle"
  /\ tcall = NoCall
  /\ tlocal = NoLocals
  /\ tresult = NoResult
  /\ tescaped = NoExc
  /\ trecorded = <<>>

ToolStep == UNCHANGED <<coreVars, propsVars, uidVars, classifyVars, normVars, syncVars>>

\* a request invokes the wrapper of a tool
InvokeTool(tool, filter, outcome, track_fails) ==
  /\ tpc \in {"idle", "done"}
  /\ tcall' = [tool |-> tool, text_tool |-> IsTextTool(tool, TRUE), filter |-> filter,
               outcome |-> outcome, track_fails |-> track_fails]
  /\ tlocal' = NoLocals
  /\ tresult' = NoResult
  /\ tescaped' = NoExc
  /\ trecorded' = <<>>
  /\ tpc' = "normalize"
  /\ ToolStep

\* the datetime filter arguments are normalized (lines 529-533); an
\* exception raised there is handled like one raised by the body
NormalizeKwargs ==
  /\ tpc = "normalize"
  /\ IF NormalizationRaises(tcall.filter)
       THEN /\ tlocal' = [tlocal EXCEPT !.exc = OverflowExc]
            /\ tpc' = "except"
       ELSE /\ tpc' = "body"
            /\ UNCHANGED tlocal
  /\ UNCHANGED <<tcall, tresult, tescaped, trecorded>>
  /\ ToolStep

\* func(*args, **call_kwargs) and the success path (lines 535-541)
RunBody ==
  /\ tpc = "body"
  /\ LET o == tcall.outcome IN
     IF o.kind = "return"
       THEN /\ tresult' = o.value
            /\ tlocal' = IF IsStructuredErrorEnvelope(o.value)
                           THEN [tlocal EXCEPT !.success = FALSE,
                                               !.error_type = o.value.items.error.items.type]
                           ELSE tlocal
            /\ tpc' = "finally"
            /\ UNCHANGED tescaped
       ELSE /\ tlocal' = [tlocal EXCEPT !.exc = o.exc]
            /\ tpc' = "except"
            /\ UNCHANGED <<tresult, tescaped>>
  /\ UNCHANGED <<tcall, trecorded>>
  /\ ToolStep

\* the except clauses (lines 542-590): `except requests.HTTPError`, then
\* `except Exception`; anything else propagates after the finally block.  An
\* exception raised inside a handler (by _classify_exception, or by the
\* f-string that formats the exception for the dev-mode log line) leaves the
\* wrapper with the locals as they are at that point
HandleException ==
  /\ tpc = "except"
  /\ LET e == tlocal.exc
         name == tcall.tool.name
     IN
     IF IsInstance(e, "HTTPError") THEN
       LET status == e.status
           c == ClassifyException(name, e, status, DEV_MODE)
       IN IF c.raised # "" THEN
            /\ tlocal' = [tlocal EXCEPT !.success = FALSE, !.http_status_code = status]
            /\ tescaped' = TypeErrorExc
            /\ UNCHANGED tresult
          ELSE IF DEV_MODE /\ StrOfRaises(e) THEN
            /\ tlocal' = [tlocal EXCEPT !.success = FALSE, !.http_status_code = status,
                                        !.error_type = c.category]
            /\ tescaped' = TypeErrorExc
            /\ UNCHANGED tresult
          ELSE
            /\ tlocal' = [tlocal EXCEPT !.success = FALSE, !.http_status_code = status,
                                        !.error_type = c.category]
            /\ tresult' = ErrorReturn(tcall.text_tool, name, c.message, c.category, status,
                                      c.details)
            /\ UNCHANGED tescaped
     ELSE IF IsInstance(e, "Exception") THEN
       LET c == ClassifyException(name, e, NoStatus, DEV_MODE)
       IN IF c.raised # "" THEN
            /\ tlocal' = [tlocal EXCEPT !.success = FALSE]
            /\ tescaped' = TypeErrorExc
            /\ UNCHANGED tresult
          ELSE
            /\ tlocal' = [tlocal EXCEPT !.success = FALSE, !.error_type = c.category]
            /\ tresult' = ErrorReturn(tcall.text_tool, name, c.message, c.category, NoStatus,
                                      c.details)
            /\ UNCHANGED tescaped
     ELSE /\ tescaped' = e
          /\ UNCHANGED <<tlocal, tresult>>
  /\ tpc' = "finally"
  /\ UNCHANGED <<tcall, trecorded>>
  /\ ToolStep

\* the finally block (lines 591-606): one track_tool_call with the outcome,
\* unless size extraction or the tracking call itself raises, which is
\* swallowed
RecordToolCallUnswallowed ==
  /\ tpc = "finally"
  /\ IF tcall.track_fails
       THEN /\ tescaped' = Exc("RuntimeError", {"Exception"}, "builtins",
                               Text("tracking failed"), NoStatus)
            /\ tresult' = NoResult
            /\ UNCHANGED trecorded
       ELSE /\ trecorded' = Append(trecorded,
                                   [tool_name |-> tcall.tool.name,
                                    success |-> tlocal.success,
                                    error_type |-> tlocal.error_type,
                                    http_status_code |-> tlocal.http_status_code])
            /\ UNCHANGED <<tresult, tescaped>>
  /\ tpc' = "done"
  /\ UNCHANGED <<tcall, tlocal>>
  /\ ToolStep
RecordToolCall ==
  /\ tpc = "finally"
  /\ trecorded' = IF tcall.track_fails THEN trecorded
                  ELSE Append(trecorded,
                              [tool_name |-> tcall.tool.name, success |-> tlocal.success,
                               error_type |-> tlocal.error_type,
                               http_status_code |-> tlocal.http_status_code])
  /\ tpc' = "done"
  /\ UNCHANGED <<tcall, tlocal, tresult, tescaped>>
  /\ ToolStep

NextTool ==
  \/ \E tool \in WrappedTools, filter \in FilterKinds :
       \E outcome \in BodyOutcomes(tool), track_fails \in BOOLEAN :
         InvokeTool(tool, filter, outcome, track_fails)
  \/ NormalizeKwargs
  \/ RunBody
  \/ HandleException
  \/ RecordToolCall

\* ---- the classifier applied on its own ----
ClassifyTools ==
  {"get_step_logs", "get_deployment_logs", "get_pipeline_run", "list_pipeline_runs",
   "checklist_runs"}
ClassifyStatuses == {NoStatus, 302, 401, 403, 404, 422, 500}

\* exception classes: name, what isinstance() accepts, module
ExcClass(cls, bases, mod) == [cls |-> cls, bases |-> bases, mod |-> mod]
ExcClasses ==
  { ExcClass("HTTPError", {"RequestException", "OSError", "Exception"}, "requests.exceptions"),
    ExcClass("ValidationError", {"HTTPError", "RequestException", "OSError", "Exception"},
             "client.errors"),
    ExcClass("ValidationError", {"ValueError", "Exception"}, "pydantic_core._pydantic_core"),
    ExcClass("ValidationError", {"Exception"}, "pydantic"),
    ExcClass("ValidationError", {"Exception"}, "jsonschema.exceptions"),
    ExcClass("SchemaValidationFailure", {"Exception"}, "pydantic.errors"),
    ExcClass("SchemaValidationFailure", {"Exception"}, "jsonschema.exceptions"),
    ExcClass("ValueError", {"Exception"}, "builtins"),
    ExcClass("ImportError", {"Exception"}, "builtins"),
    ExcClass("ModuleNotFoundError", {"ImportError", "Exception"}, "builtins"),
    ExcClass("ConnectionError", {"requests.ConnectionError", "RequestException", "OSError",
             "Exception"}, "requests.exceptions"),
    ExcClass("ConnectTimeout", {"requests.Timeout", "requests.ConnectionError",
             "RequestException", "OSError", "Exception"}, "requests.exceptions"),
    ExcClass("CredentialsNotValid", {"Exception"}, "zenml.exceptions"),
    ExcClass("AuthorizationException", {"Exception"}, "zenml.exceptions"),
    ExcClass("CredentialsNotValid", {"ValueError", "Exception"}, "client.errors"),
    ExcClass("AuthorizationException", {"ImportError", "Exception"}, "client.errors"),
    ExcClass("CredentialsNotValid", {"requests.ConnectionError", "RequestException",
             "OSError", "Exception"}, "client.errors"),
    ExcClass("RuntimeError", {"Exception"}, "builtins"),
    ExcClass("KeyError", {"LookupError", "Exception"}, "builtins"),
    ExcClass("ApiError", {"Exception"}, NoneVal) }

\* str(exc)
ExcTexts ==
  { Text("something went wrong"),
    <<Word("ZENML_STORE_URL"), Word(" environment variable not set")>>,
    <<Word(" "), Word("FOO_1"), Word(" environment variable not set"), Word("\n")>>,
    <<Word("foo"), Word(" environment variable not set")>>,
    <<Word("Error:"), Word("FOO_1"), Word(" environment variable not set")>>,
    Text("No project is currently set as active"),
    <<Word("ZenML"), Word("Version"), Word("mismatch")>>,
    <<Word("zenml"), Word("version")>>,
    <<Word("ZenML"), Word("INCOMPATIBLE"), Word("No project is currently set as active")>>,
    <<Word("ZenML"), SecretUrl, Word("version")>>,
    <<Word("cannot reach"), SecretUrl>>,
    <<Word("validation error"), Word("pydantic"), Word("ValidationError")>>,
    <<Word("1 validation error for"), Word("PipelineRunFilter"), Word("created"),
      Word("invalid datetime"), Word("input_value="), SecretUrl>>,
    StrRaises }

NoInput == [tool_name |-> "", exc |-> NoExc, status |-> NoStatus]
ClassifyInputs ==
  { [tool_name |-> t, exc |-> Exc(k.cls, k.bases, k.mod, x, NoStatus), status |-> st] :
      t \in ClassifyTools, k \in ExcClasses, x \in ExcTexts, st \in ClassifyStatuses }
NotClassified ==
  [category |-> "<none>", message |-> <<>>, details |-> Details("", NoStatus, "", <<>>),
   raised |-> ""]

ClassifyIdle == cinput = NoInput /\ cresult = NotClassified
ClassifyInit == cinput \in ClassifyInputs /\ cresult = NotClassified
ClassifyStep == UNCHANGED <<coreVars, propsVars, uidVars, toolVars, normVars, syncVars>>

\* _classify_exception(tool_name=..., exc=..., http_status_code=...)
CallClassifyException ==
  /\ cresult = NotClassified
  /\ cinput # NoInput
  /\ cresult' = ClassifyException(cinput.tool_name, cinput.exc, cinput.status, DEV_MODE)
  /\ UNCHANGED cinput
  /\ ClassifyStep

NextClassify == CallClassifyException

\* ------------------------------------------------------------------------
\* The module's locks, the tool statistics and the signal handler
\* (zenml_mcp_analytics.py track_tool_call, track_event,
\*  _ensure_sender_thread_started, _on_shutdown, signal_handler)
\*
\* A frame is a thread running module code, or the signal handler: Python
\* runs a signal handler on the main thread, between two bytecodes of
\* whatever the main thread is executing, and the interrupted code resumes
\* only when the handler has returned.  The queue and the sends, which take
\* none of the module's locks, are left to the specification of the core.
\* ------------------------------------------------------------------------
Handler == "handler"
Frames == Threads \cup {Handler}
\* _tool_stats_lock, _session_properties_lock, _sender_start_lock,
\* _shutdown_lock: threading.Lock objects, which are not reentrant
LockNames == {"tool_stats", "session_properties", "sender_start", "shutdown"}
\* tool names passed to track_tool_call
TrackedTools == {"list_runs", "get_step_logs"}
\* signals delivered in one behaviour
MaxSignals == 1

NoSnapshot == [taken |-> FALSE, total_tool_calls |-> 0, unique_tools_used |-> 0]

\* positions inside track_tool_call (with track_event and
\* _ensure_sender_thread_started) and inside _on_shutdown
TrackLabels == {"ttc_lock", "ttc_load", "ttc_store", "tev_props", "tev_props_held",
                "ens_check", "ens_lock", "ens_held"}
ShutdownLabels == {"sd_lock", "sd_flag", "sd_stats", "sd_snapshot", "sd_stop",
                   "sd_stop_held", "sd_return", "sd_raise"}

SyncIdle ==
  /\ fpc = [f \in Frames |-> IF f = Handler THEN "off" ELSE "idle"]
  /\ fname = [f \in Frames |-> ""]
  /\ ftmp = [f \in Frames |-> 0]
  /\ lockHolder = [l \in LockNames |-> "free"]
  /\ startedCalls = 0 /\ completedCalls = 0 /\ namesPassed = {}
  /\ statsSnapshot = NoSnapshot
  /\ signalsDelivered = 0
  /\ processExited = FALSE

\* the module state the steps below read or write, and the rest
syncCore == <<toolCallCount, toolsUsed, shutdownOnce, senderThread, senderStopEvent, wpc>>
SyncStep ==
  UNCHANGED <<configVars, initAttempted, initFailed, sessionId, sessionStart,
              shutdownRegistered, traitsHashFile, eventQueue, senderStartLock,
              wbatch, wclient, httpVars, histVars, pc, loc,
              propsVars, uidVars, toolVars, classifyVars, normVars>>

\* a frame can take a step: the process is alive, and the main thread's own
\* code stands still while the signal handler runs on its stack
Runs(f) == ~processExited /\ (f = MainThread => fpc[Handler] = "off")

FGoto(f, label) == fpc' = [fpc EXCEPT ![f] = label]

\* Lock.acquire() (entering `with lock:`) returns only when nobody holds the
\* lock, the calling thread included
NoExclusion(l) == TRUE
LockFree(l) == lockHolder[l] = "free"
Acquire(f, l) == LockFree(l) /\ lockHolder' = [lockHolder EXCEPT ![l] = f]
Release(f, l) == lockHolder' = [lockHolder EXCEPT ![l] = "free"]
\* an exception unwinding a frame leaves its `with` blocks
ReleaseAllOf(f) ==
  lockHolder' = [l \in LockNames |-> IF lockHolder[l] = f THEN "free" ELSE lockHolder[l]]

\* track_tool_call(tool_name, ...) is called on a thread
BeginTrackToolCall(f, tool_name) ==
  /\ f \in Threads /\ Runs(f)
  /\ fpc[f] = "idle"
  /\ startedCalls < MaxEvents
  /\ startedCalls' = startedCalls + 1
  /\ fname' = [fname EXCEPT ![f] = tool_name]
  /\ FGoto(f, "ttc_lock")
  /\ UNCHANGED <<ftmp, lockHolder, completedCalls, namesPassed, statsSnapshot,
                 signalsDelivered, processExited, syncCore>>
  /\ SyncStep

\* `with _tool_stats_lock:` of track_tool_call (line 609) and of _on_shutdown
\* (line 678)
StatsAcquire(f) ==
  /\ Runs(f)
  /\ fpc[f] \in {"ttc_lock", "sd_stats"}
  /\ Acquire(f, "tool_stats")
  /\ FGoto(f, IF fpc[f] = "ttc_lock" THEN "ttc_load" ELSE "sd_snapshot")
  /\ UNCHANGED <<fname, ftmp, startedCalls, completedCalls, namesPassed, statsSnapshot,
                 signalsDelivered, processExited, syncCore>>
  /\ SyncStep

\* line 610, `_tool_call_count += 1`: the global is loaded ...
StatsLoad(f) ==
  /\ Runs(f)
  /\ fpc[f] = "ttc_load"
  /\ ftmp' = [ftmp EXCEPT ![f] = toolCallCount]
  /\ FGoto(f, "ttc_store")
  /\ UNCHANGED <<fname, lockHolder, startedCalls, completedCalls, namesPassed,
                 statsSnapshot, signalsDelivered, processExited, syncCore>>
  /\ SyncStep

\* ... and stored; line 611 adds the name; the lock is released
StatsStore(f) ==
  /\ Runs(f)
  /\ fpc[f] = "ttc_store"
  /\ toolCallCount' = ftmp[f] + 1
  /\ toolsUsed' = toolsUsed \cup {fname[f]}
  /\ Release(f, "tool_stats")
  /\ FGoto(f, "tev_props")
  /\ UNCHANGED <<fname, ftmp, startedCalls, completedCalls, namesPassed, statsSnapshot,
                 signalsDelivered, processExited, shutdownOnce, senderThread,
                 senderStopEvent, wpc>>
  /\ SyncStep

\* the call has run to its end
Completed(f) ==
  /\ completedCalls' = completedCalls + 1
  /\ namesPassed' = namesPassed \cup {fname[f]}
  /\ fname' = [fname EXCEPT ![f] = ""]
  /\ ftmp' = [ftmp EXCEPT ![f] = 0]
  /\ FGoto(f, "idle")

\* track_event line 560: `with _session_properties_lock:` copies the session
\* properties into the event
PropsAcquire(f) ==
  /\ Runs(f)
  /\ fpc[f] = "tev_props"
  /\ Acquire(f, "session_properties")
  /\ FGoto(f, "tev_props_held")
  /\ UNCHANGED <<fname, ftmp, startedCalls, completedCalls, namesPassed, statsSnapshot,
                 signalsDelivered, processExited, syncCore>>
  /\ SyncStep

\* the lock is released; in dev mode the event is printed and the call
\* returns (line 576), otherwise _send_events goes on to
\* _ensure_sender_thread_started
PropsRelease(f) ==
  /\ Runs(f)
  /\ fpc[f] = "tev_props_held"
  /\ Release(f, "session_properties")
  /\ IF DEV_MODE
       THEN Completed(f)
       ELSE /\ FGoto(f, "ens_check")
            /\ UNCHANGED <<fname, ftmp, completedCalls, namesPassed>>
  /\ UNCHANGED <<startedCalls, statsSnapshot, signalsDelivered, processExited, syncCore>>
  /\ SyncStep

\* _ensure_sender_thread_started line 279: nothing to do when the sender
\* thread is alive
EnsureCheck(f) ==
  /\ Runs(f)
  /\ fpc[f] = "ens_check"
  /\ IF IsAlive(senderThread)
       THEN Completed(f)
       ELSE /\ FGoto(f, "ens_lock")
            /\ UNCHANGED <<fname, ftmp, completedCalls, namesPassed>>
  /\ UNCHANGED <<lockHolder, startedCalls, statsSnapshot, signalsDelivered,
                 processExited, syncCore>>
  /\ SyncStep

\* line 282: `with _sender_start_lock:`
EnsureLock(f) ==
  /\ Runs(f)
  /\ fpc[f] = "ens_lock"
  /\ Acquire(f, "sender_start")
  /\ FGoto(f, "ens_held")
  /\ UNCHANGED <<fname, ftmp, startedCalls, completedCalls, namesPassed, statsSnapshot,
                 signalsDelivered, processExited, syncCore>>
  /\ SyncStep

\* lines 283-292: re-check, clear the stop event, start the thread; the lock
\* is released and the batch is put on the queue
EnsureHeld(f) ==
  /\ Runs(f)
  /\ fpc[f] = "ens_held"
  /\ IF AliveUnderLock
       THEN UNCHANGED <<senderThread, senderStopEvent, wpc>>
       ELSE /\ senderStopEvent' = FALSE
            /\ senderThread' = 1
            /\ wpc' = [wpc EXCEPT ![1] = "loop"]
  /\ Release(f, "sender_start")
  /\ Completed(f)
  /\ UNCHANGED <<startedCalls, statsSnapshot, signalsDelivered, processExited,
                 toolCallCount, toolsUsed, shutdownOnce>>
  /\ SyncStep

\* the interpreter is leaving and runs the atexit hook _on_shutdown("atexit")
\* on the main thread
BeginAtexit(f) ==
  /\ f = MainThread /\ Runs(f)
  /\ fpc[f] = "idle"
  /\ FGoto(f, "sd_lock")
  /\ UNCHANGED <<fname, ftmp, lockHolder, startedCalls, completedCalls, namesPassed,
                 statsSnapshot, signalsDelivered, processExited, syncCore>>
  /\ SyncStep

\* SIGTERM or SIGINT arrives: signal_handler (lines 417-424) starts on the
\* main thread and calls _on_shutdown("signal", ...)
DeliverSignal ==
  /\ ~processExited
  /\ shutdownRegistered
  /\ fpc[Handler] = "off"
  /\ signalsDelivered < MaxSignals
  /\ signalsDelivered' = signalsDelivered + 1
  /\ FGoto(Handler, "sd_lock")
  /\ UNCHANGED <<fname, ftmp, lockHolder, startedCalls, completedCalls, namesPassed,
                 statsSnapshot, processExited, syncCore>>
  /\ SyncStep

\* _on_shutdown line 667: `with _shutdown_lock:`
ShutdownLock(f) ==
  /\ Runs(f)
  /\ fpc[f] = "sd_lock"
  /\ Acquire(f, "shutdown")
  /\ FGoto(f, "sd_flag")
  /\ UNCHANGED <<fname, ftmp, startedCalls, completedCalls, namesPassed, statsSnapshot,
                 signalsDelivered, processExited, syncCore>>
  /\ SyncStep

\* lines 668-670: test and set the one-shot flag, release the lock; the
\* early return runs the finally block, which raises (sender_stopped unbound)
ShutdownFlag(f) ==
  /\ Runs(f)
  /\ fpc[f] = "sd_flag"
  /\ Release(f, "shutdown")
  /\ shutdownOnce' = TRUE
  /\ FGoto(f, IF ShutdownAlreadyRun THEN "sd_raise" ELSE "sd_stats")
  /\ UNCHANGED <<fname, ftmp, startedCalls, completedCalls, namesPassed, statsSnapshot,
                 signalsDelivered, processExited, toolCallCount, toolsUsed,
                 senderThread, senderStopEvent, wpc>>
  /\ SyncStep

\* lines 679-680: the counters are read, the lock is released; in dev mode
\* the event is printed and the function returns (line 696), otherwise
\* _stop_sender_thread sets the stop event (line 301)
ShutdownSnapshot(f) ==
  /\ Runs(f)
  /\ fpc[f] = "sd_snapshot"
  /\ statsSnapshot' = [taken |-> TRUE, total_tool_calls |-> toolCallCount,
                       unique_tools_used |-> Cardinality(toolsUsed)]
  /\ Release(f, "tool_stats")
  /\ IF DEV_MODE
       THEN FGoto(f, "sd_raise") /\ UNCHANGED senderStopEvent
       ELSE FGoto(f, "sd_stop") /\ senderStopEvent' = TRUE
  /\ UNCHANGED <<fname, ftmp, startedCalls, completedCalls, namesPassed,
                 signalsDelivered, processExited, toolCallCount, toolsUsed,
                 shutdownOnce, senderThread, wpc>>
  /\ SyncStep

\* _stop_sender_thread line 313: `with _sender_start_lock:`
StopSenderLock(f) ==
  /\ Runs(f)
  /\ fpc[f] = "sd_stop"
  /\ Acquire(f, "sender_start")
  /\ FGoto(f, "sd_stop_held")
  /\ UNCHANGED <<fname, ftmp, startedCalls, completedCalls, namesPassed, statsSnapshot,
                 signalsDelivered, processExited, syncCore>>
  /\ SyncStep

\* line 314 reads _sender_thread and releases the lock; the bounded join, the
\* drain and the final send follow
StopSenderHeld(f) ==
  /\ Runs(f)
  /\ fpc[f] = "sd_stop_held"
  /\ Release(f, "sender_start")
  /\ FGoto(f, "sd_return")
  /\ UNCHANGED <<fname, ftmp, startedCalls, completedCalls, namesPassed, statsSnapshot,
                 signalsDelivered, processExited, syncCore>>
  /\ SyncStep

\* _on_shutdown returns: the atexit hook is over and the interpreter leaves,
\* or signal_handler goes on to sys.exit(0) (line 424)
ShutdownReturn(f) ==
  /\ Runs(f)
  /\ fpc[f] = "sd_return"
  /\ processExited' = TRUE
  /\ UNCHANGED <<fpc, fname, ftmp, lockHolder, startedCalls, completedCalls, namesPassed,
                 statsSnapshot, signalsDelivered, syncCore>>
  /\ SyncStep

\* UnboundLocalError leaves _on_shutdown.  From the atexit hook it is
\* reported and the interpreter leaves.  From signal_handler, which never
\* reaches sys.exit, it is raised in the code the signal interrupted: inside
\* track_tool_call or track_event `except Exception: return` swallows it and
\* the process goes on; inside the atexit hook it ends the hook; anywhere
\* else it reaches code that may or may not survive it
ShutdownRaise(f) ==
  /\ Runs(f)
  /\ fpc[f] = "sd_raise"
  /\ IF f # Handler
       THEN /\ processExited' = TRUE
            /\ UNCHANGED <<fpc, fname, ftmp, lockHolder>>
       ELSE IF fpc[MainThread] \in TrackLabels
         THEN /\ fpc' = [fpc EXCEPT ![Handler] = "off", ![MainThread] = "idle"]
              /\ fname' = [fname EXCEPT ![MainThread] = ""]
              /\ ftmp' = [ftmp EXCEPT ![MainThread] = 0]
              /\ ReleaseAllOf(MainThread)
              /\ UNCHANGED processExited
         ELSE /\ fpc' = [fpc EXCEPT ![Handler] = "off"]
              /\ IF fpc[MainThread] \in ShutdownLabels
                   THEN processExited' = TRUE
                   ELSE processExited' \in BOOLEAN
              /\ UNCHANGED <<fname, ftmp, lockHolder>>
  /\ UNCHANGED <<startedCalls, completedCalls, namesPassed, statsSnapshot,
                 signalsDelivered, syncCore>>
  /\ SyncStep

\* threads calling track_tool_call while the main thread may run the atexit
\* hook; no signal arrives
NextStats ==
  \/ \E f \in Threads, tool_name \in TrackedTools : BeginTrackToolCall(f, tool_name)
  \/ \E f \in Threads : StatsAcquire(f)
  \/ \E f \in Threads : StatsLoad(f)
  \/ \E f \in Threads : StatsStore(f)
  \/ \E f \in Threads : PropsAcquire(f)
  \/ \E f \in Threads : PropsRelease(f)
  \/ \E f \in Threads : EnsureCheck(f)
  \/ \E f \in Threads : EnsureLock(f)
  \/ \E f \in Threads : EnsureHeld(f)
  \/ \E f \in Threads : BeginAtexit(f)
  \/ \E f \in Threads : ShutdownLock(f)
  \/ \E f \in Threads : ShutdownFlag(f)
  \/ \E f \in Threads : ShutdownSnapshot(f)
  \/ \E f \in Threads : StopSenderLock(f)
  \/ \E f \in Threads : StopSenderHeld(f)
  \/ \E f \in Threads : ShutdownReturn(f)
  \/ \E f \in Threads : ShutdownRaise(f)

\* the same with signals
NextSignal ==
  \/ \E f \in Threads, tool_name \in TrackedTools : BeginTrackToolCall(f, tool_name)
  \/ \E f \in Frames : StatsAcquire(f)
  \/ \E f \in Threads : StatsLoad(f)
  \/ \E f \in Threads : StatsStore(f)
  \/ \E f \in Threads : PropsAcquire(f)
  \/ \E f \in Threads : PropsRelease(f)
  \/ \E f \in Threads : EnsureCheck(f)
  \/ \E f \in Threads : EnsureLock(f)
  \/ \E f \in Threads : EnsureHeld(f)
  \/ \E f \in Threads : BeginAtexit(f)
  \/ DeliverSignal
  \/ \E f \in Frames : ShutdownLock(f)
  \/ \E f \in Frames : ShutdownFlag(f)
  \/ \E f \in Frames : ShutdownSnapshot(f)
  \/ \E f \in Frames : StopSenderLock(f)
  \/ \E f \in Frames : StopSenderHeld(f)
  \/ \E f \in Frames : ShutdownReturn(f)
  \/ \E f \in Frames : ShutdownRaise(f)

\* ------------------------------------------------------------------------
\* Specification of the analytics core
\* ------------------------------------------------------------------------
Next ==
  \/ \E t \in Threads : CallInitAnalytics(t)
  \/ \E t \in Threads : DoInit(t)
  \/ \E t \in Threads, tool \in ToolNames : CallTrackToolCall(t, tool)
  \/ \E t \in Threads : TrackBuild(t)
  \/ \E t \in Threads : EnsureFastPath(t)
  \/ \E t \in Threads : EnsureAcquire(t)
  \/ \E t \in Threads : EnsureStart(t)
  \/ \E t \in Threads : Enqueue(t)
  \/ \E w \in Workers : WorkerLoop(w)
  \/ \E w \in Workers : WorkerGet(w)
  \/ \E w \in Workers : WorkerPostDone(w)
  \/ \E w \in Workers : WorkerClose(w)
  \/ \E t \in Threads : CallOnShutdown(t)
  \/ \E t \in Threads : StopReadThread(t)
  \/ \E t \in Threads : StopJoin(t)
  \/ \E t \in Threads : Drain(t)
  \/ \E t \in Threads : FinalSend(t)
  \/ \E t \in Threads : FinalPostDone(t)
  \/ \E t \in Threads : ShutdownFinally(t)

Init == CoreInit /\ PropsIdle /\ UidIdle /\ ToolIdle /\ SyncIdle /\ ClassifyIdle /\ NormIdle

Spec == Init /\ [][Next]_vars

\* The analytics core with a scheduler that lets a live sender thread run:
\* the worker's loop test, its queue.get (which returns after 0.5 s at the
\* latest) and the close of the client are steps of a running thread, and a
\* POST returns or raises within ANALYTICS_TIMEOUT_S
WorkerFairness ==
  \A w \in Workers :
    /\ WF_vars(WorkerLoop(w))
    /\ WF_vars(WorkerGet(w))
    /\ WF_vars(WorkerPostDone(w))
    /\ WF_vars(WorkerClose(w))

InitLive ==
  /\ CoreInit /\ ANALYTICS_ENABLED /\ ~DEV_MODE /\ traitsHashFile = "current"
  /\ PropsIdle /\ UidIdle /\ ToolIdle /\ SyncIdle /\ ClassifyIdle /\ NormIdle
SpecLive == InitLive /\ [][Next]_vars /\ WorkerFairness

\* ------------------------------------------------------------------------
\* Specifications of the session properties, the user id and the tool wrapper
\* ------------------------------------------------------------------------
\* one configuration of the analytics core, which these specifications leave idle
CoreIdle == CoreInit /\ ANALYTICS_ENABLED /\ ~DEV_MODE /\ traitsHashFile = "current"

InitProps == CoreIdle /\ PropsIdle /\ UidIdle /\ ToolIdle /\ SyncIdle /\ ClassifyIdle /\ NormIdle
SpecProps == InitProps /\ [][NextProps]_vars

InitUid == CoreIdle /\ PropsIdle /\ UidInit /\ ToolIdle /\ SyncIdle /\ ClassifyIdle /\ NormIdle
SpecUid == InitUid /\ [][NextUid]_vars

InitTool ==
  /\ CoreInit /\ ANALYTICS_ENABLED /\ traitsHashFile = "current"
  /\ PropsIdle /\ UidIdle /\ ToolIdle /\ SyncIdle /\ ClassifyIdle /\ NormIdle
SpecTool == InitTool /\ [][NextTool]_vars

InitClassify ==
  /\ CoreInit /\ ANALYTICS_ENABLED /\ traitsHashFile = "current"
  /\ PropsIdle /\ UidIdle /\ ToolIdle /\ SyncIdle /\ ClassifyInit /\ NormIdle
SpecClassify == InitClassify /\ [][NextClassify]_vars

\* the analytics core after init_analytics has run in an enabled session: the
\* session is set up, the atexit hook and the signal handlers are registered
CoreInitialized ==
  /\ enabledEnv = "true" /\ disableEnv = ""
  /\ ANALYTICS_ENABLED = AnalyticsEnabled(enabledEnv, disableEnv)
  /\ DEV_MODE \in BOOLEAN
  /\ initAttempted = TRUE /\ initFailed = FALSE
  /\ sessionId = 1 /\ sessionStart = TRUE /\ shutdownRegistered = TRUE
  /\ toolCallCount = 0 /\ toolsUsed = {}
  /\ eventQueue = <<>> /\ senderThread = NoWorker
  /\ senderStopEvent = FALSE /\ senderStartLock = "free"
  /\ shutdownOnce = FALSE /\ httpClient = NoClient
  /\ traitsHashFile = "current"
  /\ pc = [t \in Threads |-> "idle"]
  /\ loc = [t \in Threads |-> InitLoc]
  /\ wpc = [w \in Workers |-> "unborn"]
  /\ wbatch = [w \in Workers |-> <<>>]
  /\ wclient = [w \in Workers |-> NoClient]
  /\ inflight = [t \in Threads |-> NoClient]
  /\ nextClient = 1 /\ closedClients = {}
  /\ nextEv = 1 /\ dropped = {} /\ raised = {}
  /\ shutdownBuilt = 0 /\ syncSends = <<>> /\ workerTaken = {}
  /\ queueAtShutdown = <<>> /\ drainTimedOut = FALSE
  /\ shutdownCalls = 0 /\ firstShutdownSession = "none"
  /\ startedWorkers = 0

InitSync ==
  /\ CoreInitialized
  /\ PropsIdle /\ UidIdle /\ ToolIdle /\ SyncIdle /\ ClassifyIdle /\ NormIdle
SpecStats == InitSync /\ [][NextStats]_vars
SpecSignal == InitSync /\ [][NextSignal]_vars

InitNorm == CoreIdle /\ PropsIdle /\ UidIdle /\ ToolIdle /\ SyncIdle /\ ClassifyIdle /\ NormInit
SpecNorm == InitNorm /\ [][NextNorm]_vars



\* ------------------------------------------------------------------------
\* Claims about the analytics core (checked under Spec)
\* ------------------------------------------------------------------------
ShutdownPcs == {"stop_read_thread", "stop_join", "drain",
                "final_send", "final_post", "shutdown_finally"}
ShutdownInProgress == \E t \in Threads : pc[t] \in ShutdownPcs

\* events that have been handed to a synchronous final send
FinalSent == UNION {SeqToSet(syncSends[i]) : i \in 1..Len(syncSends)}
Drained == UNION {SeqToSet(loc[t].drained) : t \in Threads}
SendsWithShutdownEvent ==
  Cardinality({i \in 1..Len(syncSends) : ShutdownEvent \in SeqToSet(syncSends[i])})

\* q restricted to the elements of S, order kept
RECURSIVE Restrict(_, _)
Restrict(q, S) ==
  IF q = <<>> THEN <<>>
  ELSE IF Head(q) \in S THEN <<Head(q)>> \o Restrict(Tail(q), S)
  ELSE Restrict(Tail(q), S)

Front(q) == SubSeq(q, 1, Len(q) - 1)

\* C1: the queue never holds more than ANALYTICS_QUEUE_MAXSIZE items; a
\* _send_events call that reaches put_nowait can always take its step (it
\* does not wait for room) and never raises; a batch dropped on a full queue
\* is never in the queue, never taken by a worker and never drained.
C1_BoundedQueueDropsOnFull ==
  /\ Len(eventQueue) <= ANALYTICS_QUEUE_MAXSIZE
  /\ \A t \in Threads : pc[t] = "put" => ENABLED Enqueue(t)
  /\ "_send_events" \notin raised
  /\ \A e \in dropped :
       /\ e \notin SeqToSet(QueueEvents(eventQueue))
       /\ e \notin workerTaken
       /\ e \notin FinalSent \cup Drained

\* a batch has been dropped while the queue was full
C1_Witness ==
  /\ dropped # {}
  /\ Len(eventQueue) = ANALYTICS_QUEUE_MAXSIZE

C4_ShutdownNeverRaises == "_on_shutdown" \notin raised

\* C5: at most one sender worker is alive at any time; as long as the stop
\* path has not run, _send_events calls (however they race) have started
\* exactly one worker by the time any of them reaches put_nowait.
C5_SingleWorker ==
  /\ Cardinality({w \in Workers : IsAlive(w)}) <= 1
  /\ ~shutdownOnce => startedWorkers <= 1
  /\ (\E t \in Threads : pc[t] = "put") => startedWorkers >= 1

\* a second first call lost the race: it passed the unlocked check, took the
\* lock and finds the worker of the other call alive
C5_Witness ==
  /\ ~shutdownOnce
  /\ \E t \in Threads : pc[t] = "start_thread" /\ IsAlive(senderThread)
  /\ startedWorkers = 1

\* C6 (as claimed): no HTTP client is closed while a POST that uses it is in
\* flight, on a foreground thread or on a worker
C6_NoCloseDuringPost ==
  /\ \A t \in Threads : inflight[t] # NoClient => inflight[t] \notin closedClients
  /\ \A w \in Workers : wclient[w] # NoClient => wclient[w] \notin closedClients

\* C7: the shutdown event is never on the queue; a final synchronous send
\* ends with the shutdown event, holds it once, and before it the drained
\* events that were queued when shutdown began keep their queue order; and
\* unless the drain budget ran out, every event queued when shutdown began
\* was taken by a worker or is part of the final send.
C7_FinalSendDrainsInOrder ==
  /\ ShutdownEvent \notin SeqToSet(QueueEvents(eventQueue))
  /\ Len(syncSends) <= 1
  /\ \A i \in 1..Len(syncSends) :
       LET b == syncSends[i]
           d == Front(b)
           snap == SeqToSet(queueAtShutdown)
       IN /\ b[Len(b)] = ShutdownEvent
          /\ ShutdownEvent \notin SeqToSet(d)
          /\ Restrict(d, snap) = Restrict(queueAtShutdown, SeqToSet(d))
          /\ ~drainTimedOut => \A e \in snap : e \in workerTaken \/ e \in SeqToSet(d)

\* the final send carried two drained events and the shutdown event
C7_Witness ==
  /\ Len(syncSends) = 1
  /\ Len(syncSends[1]) >= 3
  /\ Len(queueAtShutdown) >= 2

\* ------------------------------------------------------------------------
\* Claims about the tool wrapper (checked under SpecTool)
\* ------------------------------------------------------------------------
\* the exception a call raises, from the normalization or from the body
RaisedBy(call) ==
  IF NormalizationRaises(call.filter) THEN OverflowExc
  ELSE IF call.outcome.kind = "raise" THEN call.outcome.exc
  ELSE NoExc

StatusOf(exc) == IF IsInstance(exc, "HTTPError") THEN exc.status ELSE NoStatus

\* C3 (as claimed): when the body of a wrapped tool, or the normalization of its
\* arguments, raises a subclass of Exception, the wrapper ends without an
\* exception escaping and returns the classified message as a str when the
\* tool is declared to return str, and otherwise an envelope
\* {"error": {"tool", "message", "type", ...}} naming the tool, the
\* classified message and the category.
C3_WrapperReturnsInsteadOfRaising ==
  (tpc = "done" /\ IsInstance(RaisedBy(tcall), "Exception")) =>
    LET e == RaisedBy(tcall)
        c == ClassifyException(tcall.tool.name, e, StatusOf(e), DEV_MODE)
    IN /\ tescaped = NoExc
       /\ IF tcall.tool.returns = "str"
            THEN /\ tresult.kind = "str"
                 /\ tresult.str = c.message
            ELSE /\ IsStructuredErrorEnvelope(tresult)
                 /\ tresult.items.error.items.tool = tcall.tool.name
                 /\ tresult.items.error.items.message = c.message
                 /\ tresult.items.error.items.type = c.category

\* a text tool whose body raised an HTTP error without a response has
\* returned the message string
C3_Witness ==
  /\ tpc = "done"
  /\ tcall.tool.returns = "str"
  /\ tcall.outcome.kind = "raise"
  /\ IsInstance(tcall.outcome.exc, "HTTPError")
  /\ tcall.outcome.exc.status = NoStatus
  /\ tresult = PyStr(Text("Request failed."))

\* ------------------------------------------------------------------------
\* Claims about the session properties (checked under SpecProps)
\* ------------------------------------------------------------------------
ClientInfoOps == {"set_client_info_once", "capture"}

\* C8: a set_client_info_once call (direct or through the wrapper's capture)
\* never changes a client identity key that holds a non-empty value, and a
\* call whose name and version are both None or blank changes no session
\* property at all.
C8_ClientIdentityFirstWriteWins ==
  [][ propsOp'.op \in ClientInfoOps =>
        /\ \A k \in ClientKeys :
             Truthy(sessionProperties[k]) /\ sessionProperties[k] # Absent
               => sessionProperties'[k] = sessionProperties[k]
        /\ (~Truthy(Strip(propsOp'.name)) /\ ~Truthy(Strip(propsOp'.version)))
             => sessionProperties' = sessionProperties ]_vars

\* a call carrying another real name has been made and the earlier name is
\* still the one stored
C8_Witness ==
  /\ propsOp.op = "set_client_info_once"
  /\ propsOp.name = " cursor "
  /\ sessionProperties["mcp_client_name"] = "claude"

\* C9 (as claimed): for every key, the value stored first stays; a later
\* non-empty value never replaces it
C9_FirstValueStays ==
  \A k \in PropKeys :
    (firstStored[k] # Absent /\ Truthy(sessionProperties[k]))
      => sessionProperties[k] = firstStored[k]

\* C9 (amended): a set_client_info_once call never changes the value of a
\* key that is already present and touches no key other than the two client
\* identity keys; a set_session_properties call leaves every key it names
\* with the value it carries, whatever was stored before, and every other
\* key as it was.
C9_FirstWriteWinsOnlyForClientInfo ==
  [][ /\ propsOp'.op \in ClientInfoOps =>
           \A k \in PropKeys :
             (sessionProperties[k] # Absent \/ k \notin ClientKeys)
               => sessionProperties'[k] = sessionProperties[k]
      /\ propsOp'.op = "set_session_properties" =>
           \A k \in PropKeys :
             sessionProperties'[k] =
               IF propsOp'.props[k] # Absent THEN propsOp'.props[k]
               ELSE sessionProperties[k] ]_vars

\* a set_session_properties call has replaced the value first stored under
\* a key by another non-empty value
C9_Witness ==
  /\ propsOp.op = "set_session_properties"
  /\ \E k \in PropKeys :
       /\ Truthy(firstStored[k]) /\ firstStored[k] # Absent
       /\ Truthy(sessionProperties[k])
       /\ sessionProperties[k] # firstStored[k]
       /\ propsOp.props[k] = sessionProperties[k]

\* ------------------------------------------------------------------------
\* Claims about the user id (checked under SpecUid)
\* ------------------------------------------------------------------------
\* C10 (as claimed): every call of get_or_create_user_id in one process
\* returns the same id, also when first calls overlap, the environment or the
\* file change later, or the write fails
C10_AllCallsReturnSameId == Cardinality(returnedIds) <= 1

\* the priority order of C11 in the current surroundings
ValidEnv == envId # "" /\ AsUuidStr(envId) # NoneVal
ValidFile ==
  /\ idFile \notin {FileMissing, FileUnreadable, FileUndecodable, ""}
  /\ AsUuidStr(idFile) # NoneVal
FilesystemFails == idFile = FileUnreadable \/ ~fsWritable
ResolvedByPriority(id) ==
  IF ValidEnv THEN id = AsUuidStr(envId)
  ELSE IF ValidFile THEN id = AsUuidStr(idFile)
  ELSE IF FilesystemFails /\ inDocker /\ storeUrl # "" THEN id = Uuid5(storeUrl)
  ELSE id \in SeqToSet(Uuid4Values)

\* C11 (as claimed): every call of get_or_create_user_id returns, the value
\* returned is a valid UUID string, and as long as the surroundings have not
\* changed it is the value of the first applicable source: the valid
\* environment override, else the valid stored file, else the URL-derived id
\* on a filesystem failure inside Docker with a store URL, else a random id
C11_ResolvesByPriority ==
  [][ /\ uidRaised' = {}
      /\ \A id \in returnedIds' : AsUuidStr(id) = id
      /\ \A t \in Threads :
           (upc[t] = "return" /\ upc'[t] = "idle" /\ envChanges = 0)
             => ResolvedByPriority(userId) ]_vars

\* ------------------------------------------------------------------------
\* Claims about the classifier (checked under SpecClassify)
\* ------------------------------------------------------------------------
Taxonomy ==
  {"AuthenticationError", "NotFound", "ConfigurationError", "UpstreamError",
   "ValidationError", "DependencyMissing", "ProjectNotConfigured", "VersionMismatch",
   "UnexpectedError"}
Classified == cresult # NotClassified
ClassifiedReturned == cresult # NotClassified /\ cresult.raised = ""

\* C12 (as claimed): for every tool name, exception and status the classifier
\* returns, without raising, a triple whose category is one of the nine
\* taxonomy strings
C12_ClassifyIsTotal ==
  Classified => (cresult.raised = "" /\ cresult.category \in Taxonomy)

\* the nine rules in their order: whether rule i applies to an exception, and
\* the category it gives
RuleMatches(i, exc) ==
  CASE i = 1 -> "HTTPError" \in exc.bases
    [] i = 2 -> \/ exc.cls = "ValidationError"
                \/ exc.mod \in PydanticModules /\ exc.cls \in ValidationNames
    [] i = 3 -> /\ "ValueError" \in exc.bases
                /\ LET s == StripText(exc.text)
                   IN Len(s) = 2 /\ s[1].w \in EnvVarNames
                        /\ s[2].w = " environment variable not set"
    [] i = 4 -> "ImportError" \in exc.bases
    [] i = 5 -> exc.bases \cap {"requests.Timeout", "requests.ConnectionError"} # {}
    [] i = 6 -> exc.cls \in {"CredentialsNotValid", "AuthorizationException"}
    [] i = 7 -> \E k \in DOMAIN exc.text :
                  exc.text[k].w = "No project is currently set as active"
    [] i = 8 -> /\ \E k \in DOMAIN exc.text : exc.text[k].w = "ZenML"
                /\ \E k \in DOMAIN exc.text :
                     exc.text[k].w \in {"version", "Version", "incompatible", "INCOMPATIBLE"}
    [] OTHER -> TRUE
RuleCategory(i, status) ==
  CASE i = 1 -> IF status \in {401, 403} THEN "AuthenticationError"
                ELSE IF status = 404 THEN "NotFound"
                ELSE IF status \in 400..499 THEN "ConfigurationError"
                ELSE "UpstreamError"
    [] i = 2 -> "ValidationError"
    [] i = 3 -> "ConfigurationError"
    [] i = 4 -> "DependencyMissing"
    [] i = 5 -> "UpstreamError"
    [] i = 6 -> "AuthenticationError"
    [] i = 7 -> "ProjectNotConfigured"
    [] i = 8 -> "VersionMismatch"
    [] OTHER -> "UnexpectedError"
LowestRule(exc) == MinOf({i \in 1..9 : RuleMatches(i, exc)})

\* C13: whenever the classifier returns, the category is the one of the
\* lowest-numbered of the nine rules that the exception satisfies, whatever
\* other rules it satisfies as well; an HTTP error is classified by its status
C13_FirstMatchingRuleWins ==
  ClassifiedReturned =>
    cresult.category = RuleCategory(LowestRule(cinput.exc), cinput.status)

\* an ImportError whose text holds the no-active-project marker has been
\* classified DependencyMissing
C13_Witness ==
  /\ ClassifiedReturned
  /\ "ImportError" \in cinput.exc.bases
  /\ RuleMatches(7, cinput.exc)
  /\ cresult.category = "DependencyMissing"

\* whether the message holds the filter-syntax reference block
HasFilterSyntaxBlock(message) ==
  \E i \in DOMAIN message : message[i].w = "\n\nFILTER SYNTAX REFERENCE: ..."
\* a validation error by class name and module
ValidationByClass(exc) ==
  \/ exc.cls = "ValidationError"
  \/ exc.cls \in {"ValidationError", "SchemaValidationFailure"}
       /\ exc.mod \in {"pydantic", "pydantic.errors", "pydantic_core._pydantic_core"}

\* C14: for an exception that is no HTTP error, the classifier returns the
\* category ValidationError exactly when the class name and module make it a
\* validation error, whatever the text says (a plain ValueError never is);
\* for a validation error the message holds the filter-syntax block exactly
\* when the tool name starts with list_
C14_ValidationByClassAndListingHelp ==
  (ClassifiedReturned /\ "HTTPError" \notin cinput.exc.bases) =>
    /\ (cresult.category = "ValidationError") <=> ValidationByClass(cinput.exc)
    /\ ValidationByClass(cinput.exc) =>
         (HasFilterSyntaxBlock(cresult.message)
            <=> cinput.tool_name \in {"list_pipeline_runs"})
    /\ (cinput.exc.cls = "ValueError" /\ cinput.exc.mod = "builtins") =>
         cresult.category # "ValidationError"

\* a pydantic validation error raised in a listing tool has been classified
\* ValidationError with the block in its message
C14_Witness ==
  /\ ClassifiedReturned
  /\ cinput.tool_name = "list_pipeline_runs"
  /\ cinput.exc.cls = "ValidationError"
  /\ cinput.exc.mod = "pydantic_core._pydantic_core"
  /\ cresult.category = "ValidationError"
  /\ HasFilterSyntaxBlock(cresult.message)

\* the default case of C15: dev mode off, category UnexpectedError, type
\* outside the allow-list
DefaultCaseHidden ==
  /\ ClassifiedReturned
  /\ ~DEV_MODE
  /\ cresult.category = "UnexpectedError"
  /\ cinput.exc.bases \cap {"ImportError", "RuntimeError"} = {}

\* C15: in the default case with dev mode off and a type outside the
\* allow-list, the message holds no part of the text of the exception, and an
\* exception of the same type with any other text that reaches the default
\* case gets the identical message
C15_DefaultMessageHidesText ==
  DefaultCaseHidden =>
    /\ \A i \in DOMAIN cresult.message, j \in DOMAIN cinput.exc.text :
         cresult.message[i] # cinput.exc.text[j]
    /\ \A x \in ExcTexts :
         LET other == ClassifyException(cinput.tool_name, [cinput.exc EXCEPT !.text = x],
                                        cinput.status, FALSE)
         IN (other.raised = "" /\ other.category = "UnexpectedError")
              => other.message = cresult.message

\* a KeyError whose text holds a URL with credentials has reached the default
\* case with dev mode off
C15_Witness ==
  /\ DefaultCaseHidden
  /\ cinput.exc.cls = "KeyError"
  /\ \E j \in DOMAIN cinput.exc.text : cinput.exc.text[j] = SecretUrl

\* C16 (as claimed): every URL in the details returned by the classifier is
\* reduced to scheme and hostname, with no credentials, path or query
C16_DetailsUrlsRedacted ==
  ClassifiedReturned =>
    \A i \in DOMAIN cresult.details.value :
      cresult.details.value[i].kind = "url" =>
        cresult.details.value[i] = RedactUrl(cresult.details.value[i])

\* ------------------------------------------------------------------------
\* Claims about the datetime normalizer (checked under SpecNorm)
\* ------------------------------------------------------------------------
\* the strings of the form YYYY-MM-DD among the payloads
DateOnlyStrings == {p \in Payloads : Len(p) = 1 /\ p[1].k = "date"}
Midnight == <<SP, TimeTok(0, "00:00")>>
EndOfDay == <<SP, TimeTok(23, "59:59")>>

\* C17: for every date-only string D, op:D becomes op:D 00:00:00 for gte, gt
\* and equals, op:D 23:59:59 for lte and lt, and the bare D becomes
\* D 00:00:00
C17_DateOnlyGetsDayBoundary ==
  nresult.done =>
    \A D \in DateOnlyStrings :
      /\ \A op \in {"gte", "gt", "equals"} :
           nvalue = <<Lit(op), COLON>> \o D
             => nresult = Returns(<<Lit(op), COLON>> \o D \o Midnight)
      /\ \A op \in {"lte", "lt"} :
           nvalue = <<Lit(op), COLON>> \o D
             => nresult = Returns(<<Lit(op), COLON>> \o D \o EndOfDay)
      /\ nvalue = D => nresult = Returns(D \o Midnight)

\* lte:D has become lte:D 23:59:59
C17_Witness ==
  /\ nvalue = <<Lit("lte"), COLON, DateTok(5, TRUE)>>
  /\ nresult = Returns(<<Lit("lte"), COLON, DateTok(5, TRUE), SP, TimeTok(23, "59:59")>>)

\* C18 (as claimed): normalizing a normalized value returns it unchanged
C18_NormalizeIsIdempotent ==
  nagain.done => nagain = nresult

\* C19: for valid date or datetime tokens A and B, range:A..B is normalized
\* to what in:A,B is normalized to (the same exception where one of them
\* raises), and in the value returned a date-only A has got 00:00:00 and a
\* date-only B 23:59:59
C19_RangeEqualsIn ==
  nresult.done =>
    \A A \in ValidTokens, B \in ValidTokens :
      nvalue = RangeOf(A, B) =>
        /\ nresult = NormalizeDatetimeFilter(InOf(A, B))
        /\ (nresult.raised = "" /\ A \in DateOnlyStrings) =>
             SubSeq(nresult.value, 1, 5) = <<Lit("in"), COLON>> \o A \o Midnight
        /\ (nresult.raised = "" /\ B \in DateOnlyStrings) =>
             SubSeq(nresult.value, Len(nresult.value) - 2, Len(nresult.value))
               = B \o EndOfDay

\* range:D..E of two dates has become in:D 00:00:00,E 23:59:59
C19_Witness ==
  /\ nvalue = RangeOf(<<DateTok(5, TRUE)>>, <<DateTok(6, TRUE)>>)
  /\ nresult = Returns(<<Lit("in"), COLON, DateTok(5, TRUE), SP, TimeTok(0, "00:00"), COMMA,
                         DateTok(6, TRUE), SP, TimeTok(23, "59:59")>>)

NonDatetimeOps == {"contains", "oneof", "startswith"}
HasPrefix(value, op) == Len(value) >= 2 /\ value[1] = Lit(op) /\ value[2] = COLON
PayloadOf(value) == SubSeq(value, 3, Len(value))
\* a date-only string, a space-separated datetime with a fraction, or an
\* ISO-8601 datetime of a day the calendar has and an hour up to 23
IsDatetimeString(p) ==
  \/ Len(p) = 1 /\ p[1].k = "date"
  \/ Len(p) = 4 /\ p[1].k = "date" /\ p[2] = SP /\ p[3].k = "time" /\ p[3].s # "00"
       /\ p[4].k = "frac"
  \/ /\ Len(p) >= 3
     /\ p[1].k = "date" /\ p[2] = TSEP /\ p[3].k = "time"
     /\ \A i \in 4..Len(p) : p[i].k \in {"frac", "zone"}
     /\ p[1].f /\ p[3].n <= 23
Untrimmed(p) == p # <<>> /\ (p[1] = SP \/ p[Len(p)] = SP)

NothingLeaves ==
  /\ nextEv = 1
  /\ eventQueue = <<>> /\ dropped = {}
  /\ senderThread = NoWorker /\ startedWorkers = 0
  /\ \A w \in Workers : wpc[w] = "unborn"
  /\ httpClient = NoClient /\ nextClient = 1
  /\ workerTaken = {} /\ syncSends = <<>>
  /\ \A t \in Threads : inflight[t] = NoClient

\* C21: in dev mode, whatever calls of init_analytics, track_tool_call (and
\* through it track_event) and _on_shutdown are made, no batch is enqueued,
\* no sender thread is started, no HTTP client is created and no POST is
\* issued
C21_DevModeSendsNothing == DEV_MODE => NothingLeaves

\* a dev-mode session was initialized, tracked tool calls and was shut down
C21_Witness ==
  /\ DEV_MODE /\ ANALYTICS_ENABLED
  /\ sessionStart
  /\ toolCallCount = MaxEvents
  /\ shutdownOnce
  /\ \A t \in Threads : pc[t] = "idle"

\* C22 (as claimed): once the session id and the start time are set, no
\* later call changes them or registers the shutdown handlers again
C22_InitializedAtMostOnce ==
  [][ sessionStart =>
        /\ sessionId' = sessionId
        /\ sessionStart' = sessionStart
        /\ shutdownRegistered' = shutdownRegistered ]_vars

\* the step in which thread t runs init_analytics with analytics enabled and
\* dev mode off, and whether it hands an identify event to _send_events
InitStep(t) ==
  /\ pc[t] = "init" /\ pc'[t] # "init"
  /\ ANALYTICS_ENABLED /\ ~DEV_MODE
IdentifySent(t) == pc'[t] = "send_events"

\* C23 (as claimed): the initialization of a session hands an identify event
\* to the queue exactly when the persisted traits hash is missing or differs
\* from the current one, and leaves the current hash persisted
C23_IdentifyIffHashDiffers ==
  [][ \A t \in Threads :
        InitStep(t) =>
          /\ IdentifySent(t) <=> traitsHashFile # "current"
          /\ traitsHashFile' = "current" ]_vars

\* either opt-out flag is set
OptedOut == disableEnv \in {"true", "1", "yes"} \/ enabledEnv \notin {"true", "1", "yes"}

\* C29: when either opt-out flag is set, analytics is disabled and, whatever
\* calls are made, no batch is enqueued, no sender thread is started, no HTTP
\* client is created and no POST is issued
C29_DisabledSendsNothing ==
  /\ OptedOut => ~ANALYTICS_ENABLED
  /\ ~ANALYTICS_ENABLED => NothingLeaves

\* with ZENML_MCP_DISABLE_ANALYTICS=yes alone, tool calls were tracked and
\* the shutdown has run
C29_Witness ==
  /\ disableEnv = "yes" /\ enabledEnv = "true"
  /\ toolCallCount = MaxEvents
  /\ initAttempted
  /\ shutdownOnce
  /\ \A t \in Threads : pc[t] = "idle"

\* ------------------------------------------------------------------------
\* Claims about the sender worker and the shutdown drain
\* ------------------------------------------------------------------------
\* events waiting in the queue, collected by a running drain, and handed to
\* _send_events_sync by the shutdown path
QueuedEvents == SeqToSet(QueueEvents(eventQueue))
DrainedEvents(t) == SeqToSet(loc[t].drained)
SyncSentEvents(i) == SeqToSet(syncSends[i]) \ {ShutdownEvent}

\* C30: no enqueued batch is transmitted more than once: an event the worker
\* or the shutdown path has taken from the queue is no longer in the queue
\* (it is not put back and not taken again, whether its POST failed or not),
\* and no event is taken by both the worker and the shutdown path, by two
\* workers, or by two shutdown drains
C30_NoBatchSentTwice ==
  LET drained == UNION {DrainedEvents(t) : t \in Threads}
      synced == UNION {SyncSentEvents(i) : i \in DOMAIN syncSends}
  IN /\ QueuedEvents \cap (workerTaken \cup drained \cup synced) = {}
     /\ workerTaken \cap (drained \cup synced) = {}
     /\ drained \cap synced = {}
     /\ \A v, w \in Workers :
          v # w => SeqToSet(wbatch[v]) \cap SeqToSet(wbatch[w]) = {}
     /\ \A t, u \in Threads : t # u => DrainedEvents(t) \cap DrainedEvents(u) = {}
     /\ \A i, j \in DOMAIN syncSends :
          i # j => SyncSentEvents(i) \cap SyncSentEvents(j) = {}

\* the worker has sent one batch and the shutdown path another one, which it
\* drained from the queue
C30_Witness ==
  /\ workerTaken # {}
  /\ \E i \in DOMAIN syncSends : SyncSentEvents(i) # {}
  /\ \A w \in Workers : wpc[w] \in {"unborn", "dead"}
  /\ \A t \in Threads : pc[t] = "idle"

\* C24: once the stop event is set by _stop_sender_thread, every live sender
\* worker eventually leaves its loop and terminates, whether the queue is
\* empty, holds batches ahead of the sentinel, or was full so that the
\* sentinel was not enqueued (checked under SpecLive)
C24_WorkerTerminatesAfterStop ==
  \A w \in Workers : (senderStopEvent /\ IsAlive(w)) ~> (wpc[w] = "dead")

\* the queue was full when _stop_sender_thread ran, so no sentinel was
\* enqueued, and the worker has terminated
C24_Witness ==
  /\ senderStopEvent
  /\ Len(queueAtShutdown) = ANALYTICS_QUEUE_MAXSIZE
  /\ \E w \in Workers : wpc[w] = "dead"

\* ------------------------------------------------------------------------
\* Claims about the analytics record of a tool call (checked under SpecTool)
\* ------------------------------------------------------------------------
\* the shape named by the specification: a mapping with an "error" key whose
\* value is a mapping containing string-valued tool, message and type fields
StringValued(fields, k) ==
  /\ k \in DOMAIN fields
  /\ fields[k] # (IF k = "message" THEN NoneText ELSE NoneVal)
EnvelopeShape(value) ==
  /\ value.kind = "dict"
  /\ "error" \in DOMAIN value.items
  /\ value.items.error.kind = "dict"
  /\ StringValued(value.items.error.items, "tool")
  /\ StringValued(value.items.error.items, "message")
  /\ StringValued(value.items.error.items, "type")

\* the body of the current invocation was reached and returned a value
BodyReturned == ~NormalizationRaises(tcall.filter) /\ tcall.outcome.kind = "return"
\* the record the finally block hands to track_tool_call
RecordedCall(success, error_type, status) ==
  [tool_name |-> tcall.tool.name, success |-> success, error_type |-> error_type,
   http_status_code |-> status]

\* C25: every invocation of a wrapped tool that returns normally, returns an
\* error envelope, or raises an HTTPError or another Exception runs the
\* finally block once and attempts one record there, with success=false
\* exactly when an envelope was returned or an exception was raised; a failing
\* attempt records nothing and leaves the returned value (and the exception
\* leaving the wrapper, if any) as it was
C25_OneRecordAttemptPerInvocation ==
  [][ (tpc' = "done" /\ tpc # "done"
         /\ (BodyReturned \/ IsInstance(RaisedBy(tcall), "Exception"))) =>
        LET failed == ~BodyReturned \/ EnvelopeShape(tcall.outcome.value)
        IN /\ tpc = "finally"
           /\ trecorded = <<>>
           /\ tresult' = tresult /\ tescaped' = tescaped
           /\ IF tcall.track_fails
                THEN trecorded' = <<>>
                ELSE /\ Len(trecorded') = 1
                     /\ trecorded'[1].tool_name = tcall.tool.name
                     /\ trecorded'[1].success = ~failed ]_vars

\* the recording of a call failed after the body had raised an HTTP error,
\* and the caller still has the error envelope
C25_Witness ==
  /\ tpc = "done"
  /\ tcall.track_fails
  /\ IsInstance(RaisedBy(tcall), "HTTPError")
  /\ trecorded = <<>>
  /\ tescaped = NoExc
  /\ IsStructuredErrorEnvelope(tresult)

\* C26: when the body returns without raising, the value is passed through
\* unchanged, and the call is recorded with success=false and the envelope's
\* type as error_type if the value has the envelope shape, with success=true
\* and no error_type otherwise
C26_EnvelopeDetection ==
  (tpc = "done" /\ BodyReturned) =>
    /\ tresult = tcall.outcome.value
    /\ tescaped = NoExc
    /\ \A i \in DOMAIN trecorded :
         trecorded[i] =
           IF EnvelopeShape(tcall.outcome.value)
             THEN RecordedCall(FALSE, tcall.outcome.value.items.error.items.type, NoStatus)
             ELSE RecordedCall(TRUE, "", NoStatus)

\* a body returned a dict whose "error" item holds tool, message and type
\* with None as type, and the call was recorded as a success
C26_Witness ==
  /\ tpc = "done" /\ BodyReturned
  /\ tcall.outcome.value.kind = "dict"
  /\ "error" \in DOMAIN tcall.outcome.value.items
  /\ tcall.outcome.value.items.error.kind = "dict"
  /\ "type" \in DOMAIN tcall.outcome.value.items.error.items
  /\ tcall.outcome.value.items.error.items.type = NoneVal
  /\ trecorded = <<RecordedCall(TRUE, "", NoStatus)>>

\* ------------------------------------------------------------------------
\* Claims about the tool statistics (checked under SpecStats) and about the
\* signal handler (checked under SpecSignal)
\* ------------------------------------------------------------------------
\* no track_tool_call invocation is under way
NoCallUnderWay == \A f \in Threads : fpc[f] \notin TrackLabels

\* C27: under any interleaving of track_tool_call invocations on several
\* threads, the tool-call counter never decreases; whenever the invocations
\* begun so far have all completed, the counter equals their number and
\* tools_used is the set of the names they were passed; and the snapshot read
\* by the shutdown coordinator has unique_tools_used <= total_tool_calls
C27_NoToolStatLost ==
  [][ /\ toolCallCount' >= toolCallCount
      /\ (\A f \in Threads : fpc'[f] \notin TrackLabels) =>
           /\ completedCalls' = startedCalls'
           /\ toolCallCount' = completedCalls'
           /\ toolsUsed' = namesPassed'
      /\ statsSnapshot'.taken =>
           statsSnapshot'.unique_tools_used <= statsSnapshot'.total_tool_calls ]_vars

\* calls of two tools have been tracked to their end and the shutdown
\* snapshot has counted both
C27_Witness ==
  /\ NoCallUnderWay
  /\ completedCalls = MaxEvents
  /\ toolCallCount = MaxEvents
  /\ toolsUsed = TrackedTools
  /\ statsSnapshot.taken
  /\ statsSnapshot.unique_tools_used = 2

\* the lock a frame is waiting for at its position
WaitsFor(f) ==
  CASE fpc[f] \in {"ttc_lock", "sd_stats"} -> "tool_stats"
    [] fpc[f] = "tev_props" -> "session_properties"
    [] fpc[f] \in {"ens_lock", "sd_stop"} -> "sender_start"
    [] fpc[f] = "sd_lock" -> "shutdown"
    [] OTHER -> "none"

\* C28 (as claimed): the shutdown coordinator called by the signal handler
\* never waits for a lock held by the code the signal interrupted (which
\* cannot release it before the handler returns)
C28_HandlerNeverWaitsForInterruptedCode ==
  WaitsFor(Handler) \in LockNames => lockHolder[WaitsFor(Handler)] # MainThread


====
